---- MODULE Spec2Model ----
(***************************************************************************)
(* A model of the schemaxtract document-extraction services:               *)
(*   - the vendor-template store of donut_service/main.py (save, load,     *)
(*     list, delete), sequentially and with two concurrent saves;          *)
(*   - the /apply-template-intelligent handler served on two threads;      *)
(*   - the batch scheduler of /extract-batch and a client that resumes it; *)
(*   - the bounding-box normalisation of the extraction paths and the      *)
(*     normalise / denormalise round trip;                                 *)
(*   - the Evidence Matcher, its similarity-based variant, the Q&A         *)
(*     orchestrator of extract_invoice_fields_layoutlm behind /extract,    *)
(*     and the input validation of the handlers.                           *)
(* Strings that the code inspects character by character are sequences of  *)
(* one-character strings.  Every component has a specification of its own  *)
(* (SpecStore, SpecRace, SpecTransfer, SpecBatch, SpecBbox, SpecRoundTrip, *)
(* SpecNormalize, SpecMatch, SpecFuzzy, SpecQA, SpecInput); the variables  *)
(* of the other components stay at their idle values.                      *)
(***************************************************************************)
EXTENDS Integers, Sequences, FiniteSets, TLC

VARIABLES
    files,          \* TEMPLATE_DIR: file stem (a name) -> stored template
    clock,          \* number of handler calls served so far (datetime.now())
    storeResp,      \* the last response of a template handler
    rfile,          \* SpecRace: the bytes of TEMPLATE_DIR/<vendor>.json
    writers,        \* SpecRace: per save request, its position in save_template
    modelLoaded,    \* _doc_qa_pipeline is not None
    pdfFile,        \* content of /tmp/temp_doc_template.pdf
    pngFile,        \* content of /tmp/temp_page.png
    reqs,           \* SpecTransfer: per request thread, its locals
    custom_fields,  \* SpecBatch: the caller's field-request list
    batch_size,     \* SpecBatch: the caller's batch_size
    batchResp,      \* SpecBatch: the last response of /extract-batch
    trav,           \* SpecBatch: the resuming client's progress
    img,            \* SpecBbox: the image size [w, h]
    ocr_words,      \* SpecBbox: the OCR word list of the image
    outField,       \* SpecBbox: the last field an extraction path returned
    rt,             \* SpecBbox: the last normalise/denormalise round trip
    rawBox,         \* SpecNormalize: the box handed to a normalisation, if any
    normResp,       \* SpecNormalize: what the normalisation gave
    mvalue,         \* SpecMatch: the value handed to the Evidence Matcher
    matchResp,      \* SpecMatch: what match_value_to_ocr_bbox returned
    donutField,     \* SpecFuzzy: the field handed to match_field_to_ocr
    ocr_entries,    \* SpecFuzzy: the OCR entries handed to match_field_to_ocr
    fuzzyResp,      \* SpecFuzzy: the field match_field_to_ocr returned
    questions,      \* SpecQA: the questions dict, in insertion order
    oracle,         \* SpecQA: per question, what the model call does
    collab,         \* SpecQA: which collaborators work for this request
    qa,             \* SpecQA: the position and locals of the /extract request
    reqBody,        \* SpecInput: the JSON body of the request
    inputResp,      \* SpecInput: the handler's response and the steps it took
    ocrText,        \* SpecSimulate: the OCR text handed to extract_invoice_fields
    simRuns,        \* SpecSimulate: the field lists of the runs made so far
    tplReq,         \* SpecEngine: the /apply-template-intelligent request
    tplResp,        \* SpecEngine: the handler's response
    patWords,       \* SpecPattern: the OCR words of the regex-pattern mode
    patResp,        \* SpecPattern: the fields and the patterns tried
    lineInput,      \* SpecLines: the words and image height to group
    lineResp        \* SpecLines: the lines group_words_into_lines returned

storeVars    == <<files, clock, storeResp>>
raceVars     == <<rfile, writers>>
transferVars == <<modelLoaded, pdfFile, pngFile, reqs>>
batchVars    == <<custom_fields, batch_size, batchResp, trav>>
bboxVars     == <<img, ocr_words, outField, rt>>
normVars     == <<rawBox, normResp>>
matchVars    == <<mvalue, matchResp>>
fuzzyVars    == <<donutField, ocr_entries, fuzzyResp>>
qaVars       == <<questions, oracle, collab, qa>>
inputVars    == <<reqBody, inputResp>>
simVars      == <<ocrText, simRuns>>
engineVars   == <<tplReq, tplResp>>
patternVars  == <<patWords, patResp>>
lineVars     == <<lineInput, lineResp>>
pipelineVars == <<simVars, engineVars, patternVars, lineVars>>
extractionVars == <<normVars, matchVars, fuzzyVars, qaVars, inputVars, pipelineVars>>
vars == <<storeVars, raceVars, transferVars, batchVars, bboxVars, extractionVars>>

None == "none"

Min(a, b) == IF a <= b THEN a ELSE b
Max(a, b) == IF a >= b THEN a ELSE b

\* All sequences over S of length 0..n.
SeqsUpTo(S, n) == UNION {[1..k -> S] : k \in 0..n}

(***************************************************************************)
(* The vendor-template store.                                              *)
(***************************************************************************)

\* Bounds of the store model.
MaxNameLen == 2
MaxOps == 3

\* The characters vendor names are made of: a lower-case and an upper-case
\* letter, whitespace, and a character that is none of these.
Chars == {"a", "A", " ", "."}
VendorNames == SeqsUpTo(Chars, MaxNameLen)
Payloads == {"f1", "f2"}

\* str.lower() on one character.
Lower(c) == IF c = "A" THEN "a" ELSE c
\* str.isalnum() on one character.
IsAlnum(c) == c \in {"a", "A"}

RECURSIVE LStrip(_)
LStrip(s) == IF s # <<>> /\ Head(s) = " " THEN LStrip(Tail(s)) ELSE s
RECURSIVE RStrip(_)
RStrip(s) ==
    IF s # <<>> /\ s[Len(s)] = " " THEN RStrip(SubSeq(s, 1, Len(s) - 1)) ELSE s
\* str.strip()
Strip(s) == LStrip(RStrip(s))

\* "".join(c if c.isalnum() or c in "_-" else "_" for c in vendor_name.lower())
Sanitize(name) ==
    [i \in 1..Len(name) |->
        LET c == Lower(name[i])
        IN IF IsAlnum(c) \/ c \in {"_", "-"} THEN c ELSE "_"]

Exists(stem) == stem \in DOMAIN files

\* The version save_template stores: template_data.get("version", 1) + 1.
NextVersion(template_data) ==
    IF "version" \in DOMAIN template_data THEN template_data.version + 1 ELSE 1 + 1

\* save_template(vendor_name, template_data): the file it writes.
save_template(vendor_name, template_data) ==
    [vendor_name |-> template_data.vendor_name,
     fields |-> template_data.fields,
     created |-> template_data.created,
     last_updated |-> clock + 1,
     version |-> NextVersion(template_data)]

\* load_template(vendor_name): the stored template as a one-element set, or
\* the empty set for None.
load_template(vendor_name) ==
    IF Exists(vendor_name) THEN {files[vendor_name]} ELSE {}

\* list_templates(): the stems of TEMPLATE_DIR/*.json.
list_templates == DOMAIN files

\* POST /templates/save
save_vendor_template(raw, payload) ==
    /\ clock < MaxOps
    /\ clock' = clock + 1
    /\ LET stripped == Strip(raw)
           vendor_name == Sanitize(stripped)
           template_data == [vendor_name |-> vendor_name, fields |-> payload,
                             created |-> clock + 1]
       IN IF stripped = <<>>
          THEN /\ storeResp' = [op |-> "save", arg |-> raw, code |-> 400,
                                body |-> None]
               /\ files' = files
          ELSE /\ files' = [s \in DOMAIN files \cup {vendor_name} |->
                              IF s = vendor_name
                              THEN save_template(vendor_name, template_data)
                              ELSE files[s]]
               /\ storeResp' = [op |-> "save", arg |-> raw, code |-> 200,
                                body |-> vendor_name]
    /\ UNCHANGED <<raceVars, transferVars, batchVars, bboxVars, extractionVars>>

\* GET /templates/load/<vendor_name>
load_vendor_template(raw) ==
    /\ clock < MaxOps
    /\ clock' = clock + 1
    /\ storeResp' = IF load_template(raw) # {}
                    THEN [op |-> "load", arg |-> raw, code |-> 200,
                          body |-> load_template(raw)]
                    ELSE [op |-> "load", arg |-> raw, code |-> 404, body |-> None]
    /\ UNCHANGED <<files, raceVars, transferVars, batchVars, bboxVars, extractionVars>>

\* GET /templates/list
list_vendor_templates ==
    /\ clock < MaxOps
    /\ clock' = clock + 1
    /\ storeResp' = [op |-> "list", arg |-> <<>>, code |-> 200,
                     body |-> list_templates]
    /\ UNCHANGED <<files, raceVars, transferVars, batchVars, bboxVars, extractionVars>>

\* DELETE /templates/delete/<vendor_name>
delete_vendor_template(raw) ==
    /\ clock < MaxOps
    /\ clock' = clock + 1
    /\ IF Exists(raw)
       THEN /\ files' = [s \in DOMAIN files \ {raw} |-> files[s]]
            /\ storeResp' = [op |-> "delete", arg |-> raw, code |-> 200,
                             body |-> None]
       ELSE /\ files' = files
            /\ storeResp' = [op |-> "delete", arg |-> raw, code |-> 404,
                             body |-> None]
    /\ UNCHANGED <<raceVars, transferVars, batchVars, bboxVars, extractionVars>>

IdleStore ==
    /\ files = <<>>
    /\ clock = 0
    /\ storeResp = [op |-> None, arg |-> <<>>, code |-> 0, body |-> None]

(***************************************************************************)
(* Two concurrent saves to one vendor name: save_template's open("w"),     *)
(* the buffered writes of json.dump and the close, interleaved.  Each      *)
(* request has its own file object, hence its own file offset.             *)
(***************************************************************************)

\* Bounds of the race model: the longest document, and the size of the
\* write buffer (io.DEFAULT_BUFFER_SIZE, scaled down with the documents).
MaxDocLen == 3
BufSize == 2

Writers == {1, 2}
Hole == <<0, 0>>

\* The JSON document request w writes: n bytes, byte i tagged <<w, i>>.
Doc(w, n) == [i \in 1..n |-> <<w, i>>]

\* write(2) of chunk at offset pos of a file opened without O_APPEND: bytes
\* past the end of the file leave a hole of zeros.
WriteAt(file, pos, chunk) ==
    LET newLen == Max(Len(file), pos + Len(chunk))
    IN [i \in 1..newLen |->
          IF i > pos /\ i <= pos + Len(chunk) THEN chunk[i - pos]
          ELSE IF i <= Len(file) THEN file[i] ELSE Hole]

\* open(template_file, "w"): truncate, offset 0.
SaveOpen(w) ==
    /\ writers[w].pc = "start"
    /\ rfile' = <<>>
    /\ writers' = [writers EXCEPT ![w].pc = "open", ![w].pos = 0]
    /\ UNCHANGED <<storeVars, transferVars, batchVars, bboxVars, extractionVars>>

\* json.dump(template_data, f): the buffer is flushed BufSize bytes at a time.
SaveWrite(w) ==
    /\ writers[w].pc = "open"
    /\ writers[w].pos < writers[w].len
    /\ LET n == Min(BufSize, writers[w].len - writers[w].pos)
           chunk == SubSeq(Doc(w, writers[w].len), writers[w].pos + 1,
                           writers[w].pos + n)
       IN /\ rfile' = WriteAt(rfile, writers[w].pos, chunk)
          /\ writers' = [writers EXCEPT ![w].pos = writers[w].pos + n]
    /\ UNCHANGED <<storeVars, transferVars, batchVars, bboxVars, extractionVars>>

\* Leaving the with block closes the file once everything is written.
SaveClose(w) ==
    /\ writers[w].pc = "open"
    /\ writers[w].pos = writers[w].len
    /\ writers' = [writers EXCEPT ![w].pc = "closed"]
    /\ UNCHANGED <<rfile, storeVars, transferVars, batchVars, bboxVars, extractionVars>>

IdleRace ==
    /\ rfile = <<>>
    /\ writers = <<>>

(***************************************************************************)
(* /apply-template-intelligent served on two threads (app.run with         *)
(* threaded=True).  Both requests use the same two fixed paths.            *)
(***************************************************************************)

Threads == {1, 2}
Formats == {"pdf", "png"}
Absent == "absent"
Empty == "empty"
Error == "error"

\* The document of request r.
DocOf(r) == IF r = 1 THEN "doc1" ELSE "doc2"

Goto(r, pc) == [reqs EXCEPT ![r].pc = pc]

\* Lines 1670-1691: the payload is read and the model handle is loaded when
\* it is still None.
T_LoadModel(r) ==
    /\ reqs[r].pc = "start"
    /\ modelLoaded' = TRUE
    /\ reqs' = Goto(r, IF reqs[r].format = "pdf" THEN "pdf_open" ELSE "img_open")
    /\ UNCHANGED <<pdfFile, pngFile, storeVars, raceVars, batchVars, bboxVars, extractionVars>>

\* open(tmp_path, "wb") truncates /tmp/temp_doc_template.pdf.
T_OpenPdf(r) ==
    /\ reqs[r].pc = "pdf_open"
    /\ pdfFile' = Empty
    /\ reqs' = [reqs EXCEPT ![r].pc = "pdf_write", ![r].tmp_path = TRUE]
    /\ UNCHANGED <<modelLoaded, pngFile, storeVars, raceVars, batchVars, bboxVars, extractionVars>>

\* f.write(doc_data) and the close of the with block.
T_WritePdf(r) ==
    /\ reqs[r].pc = "pdf_write"
    /\ pdfFile' = DocOf(r)
    /\ reqs' = Goto(r, "convert")
    /\ UNCHANGED <<modelLoaded, pngFile, storeVars, raceVars, batchVars, bboxVars, extractionVars>>

\* convert_from_path(tmp_path, ...) rasterises what the file holds now; a
\* missing or empty file raises, which runs the finally block.
T_Convert(r) ==
    /\ reqs[r].pc = "convert"
    /\ IF pdfFile \in {Absent, Empty}
       THEN reqs' = [reqs EXCEPT ![r].pc = "chk_pdf", ![r].result = Error]
       ELSE reqs' = [reqs EXCEPT ![r].pc = "save_png", ![r].image = pdfFile]
    /\ UNCHANGED <<modelLoaded, pdfFile, pngFile, storeVars, raceVars, batchVars,
                   bboxVars, extractionVars>>

\* Image.open(io.BytesIO(doc_data)): the image comes from the request's bytes.
T_OpenImage(r) ==
    /\ reqs[r].pc = "img_open"
    /\ reqs' = [reqs EXCEPT ![r].pc = "save_png", ![r].image = DocOf(r)]
    /\ UNCHANGED <<modelLoaded, pdfFile, pngFile, storeVars, raceVars, batchVars,
                   bboxVars, extractionVars>>

\* image.save("/tmp/temp_page.png")
T_SavePng(r) ==
    /\ reqs[r].pc = "save_png"
    /\ pngFile' = reqs[r].image
    /\ reqs' = [reqs EXCEPT ![r].pc = "ocr", ![r].image_path = TRUE]
    /\ UNCHANGED <<modelLoaded, pdfFile, storeVars, raceVars, batchVars, bboxVars, extractionVars>>

\* OCR and the template transfer run on the in-memory image; the fields of
\* the response are those of that image.
T_Extract(r) ==
    /\ reqs[r].pc = "ocr"
    /\ reqs' = [reqs EXCEPT ![r].pc = "chk_pdf", ![r].result = reqs[r].image]
    /\ UNCHANGED <<modelLoaded, pdfFile, pngFile, storeVars, raceVars, batchVars,
                   bboxVars, extractionVars>>

\* finally: if tmp_path and os.path.exists(tmp_path)
T_CheckPdf(r) ==
    /\ reqs[r].pc = "chk_pdf"
    /\ reqs' = Goto(r, IF reqs[r].tmp_path /\ pdfFile # Absent
                       THEN "rm_pdf" ELSE "chk_png")
    /\ UNCHANGED <<modelLoaded, pdfFile, pngFile, storeVars, raceVars, batchVars,
                   bboxVars, extractionVars>>

\* os.unlink(tmp_path): raises FileNotFoundError when the file is gone, which
\* leaves the finally block and is answered by the outer except with an error.
T_UnlinkPdf(r) ==
    /\ reqs[r].pc = "rm_pdf"
    /\ IF pdfFile = Absent
       THEN /\ reqs' = [reqs EXCEPT ![r].pc = "done", ![r].result = Error]
            /\ pdfFile' = pdfFile
       ELSE /\ reqs' = Goto(r, "chk_png")
            /\ pdfFile' = Absent
    /\ UNCHANGED <<modelLoaded, pngFile, storeVars, raceVars, batchVars, bboxVars, extractionVars>>

\* if image_path and os.path.exists(image_path)
T_CheckPng(r) ==
    /\ reqs[r].pc = "chk_png"
    /\ reqs' = Goto(r, IF reqs[r].image_path /\ pngFile # Absent
                       THEN "rm_png" ELSE "done")
    /\ UNCHANGED <<modelLoaded, pdfFile, pngFile, storeVars, raceVars, batchVars,
                   bboxVars, extractionVars>>

\* os.unlink(image_path)
T_UnlinkPng(r) ==
    /\ reqs[r].pc = "rm_png"
    /\ IF pngFile = Absent
       THEN /\ reqs' = [reqs EXCEPT ![r].pc = "done", ![r].result = Error]
            /\ pngFile' = pngFile
       ELSE /\ reqs' = Goto(r, "done")
            /\ pngFile' = Absent
    /\ UNCHANGED <<modelLoaded, pdfFile, storeVars, raceVars, batchVars, bboxVars, extractionVars>>

IdleTransfer ==
    /\ modelLoaded = FALSE
    /\ pdfFile = Absent
    /\ pngFile = Absent
    /\ reqs = <<>>

(***************************************************************************)
(* The batch scheduler: POST /extract-batch (extract_document_batch), and  *)
(* a client that resubmits the returned next_batch_index.                  *)
(***************************************************************************)

\* Bounds of the batch model.
MaxFields == 5
MaxBatchSize == 3
MaxIndex == 5

KeyNames == <<"k1", "k2", "k3", "k4", "k5", "k6", "k7", "k8">>

\* The caller's lists: request i has key KeyNames[i]; pos is its place in the
\* caller's list.
FieldRequestLists ==
    UNION {{[i \in 1..n |-> [key |-> KeyNames[i], pos |-> i, required |-> fl[i]]] :
              fl \in [1..n -> BOOLEAN]} : n \in 0..MaxFields}

BatchIndexes == (0 - MaxIndex)..MaxIndex
BatchSizes == 0..MaxBatchSize

\* What the collaborators do in one call: the image cannot be opened, the
\* model gives no acceptable answer, or it answers every question.
Outcomes == {"fail", "none", "all"}

\* The default questions extract_invoice_fields_layoutlm starts from.
DefaultQuestions ==
    <<"invoice_number", "invoice_date", "total_amount", "vendor_name", "po_number">>

IsRequired(f) == f.required
IsOptional(f) == ~f.required

\* The optional requests put first.
sorted_fields_opt_first(cf) == SelectSeq(cf, IsOptional) \o SelectSeq(cf, IsRequired)

\* sorted_fields = priority_fields + optional_fields
sorted_fields(cf) == SelectSeq(cf, IsRequired) \o SelectSeq(cf, IsOptional)

\* Python's s[a:b]: a negative bound counts from the end, and both bounds are
\* clamped to 0..len(s).
PyBound(k, n) == IF k < 0 THEN Max(k + n, 0) ELSE Min(k, n)
PySlice(s, a, b) ==
    LET lo == PyBound(a, Len(s))
        hi == PyBound(b, Len(s))
    IN IF lo < hi THEN SubSeq(s, lo + 1, hi) ELSE <<>>

start_idx(bi, bs) == bi * bs
end_idx(bi, bs, n) == Min(start_idx(bi, bs) + bs, n)
batch_fields(cf, bs, bi) ==
    PySlice(sorted_fields(cf), start_idx(bi, bs), end_idx(bi, bs, Len(cf)))

\* The quotient rounded down instead of up.
total_batches_floor(n, bs) == n \div bs

\* (len(sorted_fields) + batch_size - 1) // batch_size, for batch_size >= 1
total_batches(n, bs) == (n + bs - 1) \div bs

\* has_more that is still true for the last batch.
has_more_off_by_one(bi, tb) == bi < tb

\* batch_index < (total_batches - 1)
has_more(bi, tb) == bi < (tb - 1)

\* The labels of the questions one extraction call puts to the model: the
\* defaults, then the custom fields it was given.
Questions(fields) == DefaultQuestions \o [i \in 1..Len(fields) |-> fields[i].key]

\* extract_fields_with_donut(tmp_path, batch_fields, start_field_id): the
\* emitted fields, numbered from start_field_id.
ExtractedFields(fields, start_field_id, outcome) ==
    IF outcome = "all"
    THEN [i \in 1..Len(Questions(fields)) |->
             [id |-> start_field_id + i - 1, label |-> Questions(fields)[i]]]
    ELSE <<>>

NoInfo ==
    [batch_index |-> 0, batch_size |-> 0, total_fields |-> 0, total_batches |-> 0,
     has_more |-> FALSE, processed_count |-> 0, next_batch_index |-> {}]

\* The response of extract_document_batch, with the submitted batch_index,
\* the handler's locals sorted_fields and batch_fields and the number of
\* questions put to the model.
extract_document_batch(cf, bs, bi, outcome) ==
    LET sorted == sorted_fields(cf)
        batch == batch_fields(cf, bs, bi)
    IN IF bs = 0
       THEN \* ZeroDivisionError at total_batches, answered by the outer except
            [status |-> "error", fields |-> <<>>, batch_info |-> NoInfo,
             submitted |-> bi, sorted_fields |-> sorted, batch_fields |-> batch, asked |-> 0]
       ELSE LET tb == total_batches(Len(sorted), bs)
                more == has_more(bi, tb)
            IN IF batch = <<>>
               THEN [status |-> "success", fields |-> <<>>,
                     batch_info |->
                        [batch_index |-> bi, batch_size |-> bs,
                         total_fields |-> Len(sorted), total_batches |-> tb,
                         has_more |-> FALSE, processed_count |-> 0,
                         next_batch_index |-> {}],
                     submitted |-> bi, sorted_fields |-> sorted, batch_fields |-> batch, asked |-> 0]
               ELSE IF outcome = "fail"
               THEN [status |-> "error", fields |-> <<>>, batch_info |-> NoInfo,
                     submitted |-> bi, sorted_fields |-> sorted, batch_fields |-> batch, asked |-> 0]
               ELSE LET fields == ExtractedFields(batch, (bi * bs) + 1, outcome)
                    IN [status |-> "success", fields |-> fields,
                        batch_info |->
                           [batch_index |-> bi, batch_size |-> bs,
                            total_fields |-> Len(sorted), total_batches |-> tb,
                            has_more |-> more, processed_count |-> Len(fields),
                            next_batch_index |-> IF more THEN {bi + 1} ELSE {}],
                        submitted |-> bi, sorted_fields |-> sorted, batch_fields |-> batch,
                        asked |-> Len(Questions(batch))]

NoResp ==
    [status |-> None, fields |-> <<>>, batch_info |-> NoInfo,
     submitted |-> 0, sorted_fields |-> <<>>, batch_fields |-> <<>>, asked |-> 0]

\* The longest traversal the client is followed for.
MaxCalls == MaxFields + 2

\* The client before its first call; total_batches is the number the last
\* response reported.
NoTrav ==
    [state |-> "start", calls |-> 0, next |-> 0, total_batches |-> 0,
     slices |-> <<>>]

\* One call with a batch_index of the caller's choosing.
ExtractBatch(bi, outcome) ==
    /\ batchResp' = extract_document_batch(custom_fields, batch_size, bi, outcome)
    /\ UNCHANGED <<custom_fields, batch_size, trav>>
    /\ UNCHANGED <<storeVars, raceVars, transferVars, bboxVars, extractionVars>>

\* The resuming client: it submits batch_index 0, then the next_batch_index of
\* the last response while has_more is true.
ResumeBatch(outcome) ==
    /\ trav.state \in {"start", "running"}
    /\ trav.calls < MaxCalls
    /\ LET r == extract_document_batch(custom_fields, batch_size, trav.next, outcome)
       IN /\ batchResp' = r
          /\ trav' =
               IF r.status # "success"
               THEN [trav EXCEPT !.state = "aborted", !.calls = trav.calls + 1]
               ELSE [state |-> IF r.batch_info.has_more THEN "running" ELSE "finished",
                     calls |-> trav.calls + 1,
                     total_batches |-> r.batch_info.total_batches,
                     next |-> IF r.batch_info.has_more
                              THEN CHOOSE k \in r.batch_info.next_batch_index : TRUE
                              ELSE trav.next,
                     slices |-> trav.slices \o r.batch_fields]
    /\ UNCHANGED <<custom_fields, batch_size>>
    /\ UNCHANGED <<storeVars, raceVars, transferVars, bboxVars, extractionVars>>

IdleBatch ==
    /\ custom_fields = <<>>
    /\ batch_size = 0
    /\ batchResp = NoResp
    /\ trav = NoTrav

(***************************************************************************)
(* Text, as sequences of one-character strings.                            *)
(***************************************************************************)

LowerStr(s) == [i \in 1..Len(s) |-> Lower(s[i])]

\* a in b
IsSubstr(a, b) ==
    /\ Len(a) <= Len(b)
    /\ \E i \in 0..(Len(b) - Len(a)) : SubSeq(b, i + 1, i + Len(a)) = a

\* The first whitespace-free token of s, s not starting with whitespace.
RECURSIVE FirstToken(_)
FirstToken(s) ==
    IF s = <<>> \/ Head(s) = " " THEN <<>> ELSE <<Head(s)>> \o FirstToken(Tail(s))

\* str.split(): the whitespace-separated tokens.
RECURSIVE Split(_)
Split(s) ==
    LET t == LStrip(s)
    IN IF t = <<>> THEN <<>>
       ELSE <<FirstToken(t)>> \o Split(SubSeq(t, Len(FirstToken(t)) + 1, Len(t)))

\* " ".join(texts)
RECURSIVE Join(_)
Join(texts) ==
    IF texts = <<>> THEN <<>>
    ELSE IF Len(texts) = 1 THEN texts[1]
    ELSE texts[1] \o <<" ">> \o Join(Tail(texts))

(***************************************************************************)
(* Bounding boxes and the Evidence Matcher.  A box is <<x1, y1, x2, y2>>;  *)
(* a confidence is a fraction <<numerator, denominator>>.                  *)
(***************************************************************************)

SetMin(S) == CHOOSE x \in S : \A y \in S : x <= y
SetMax(S) == CHOOSE x \in S : \A y \in S : x >= y

RECURSIVE SumConf(_, _)
SumConf(words, I) ==
    IF I = {} THEN 0
    ELSE LET i == CHOOSE j \in I : TRUE
         IN words[i].conf + SumConf(words, I \ {i})

\* The box and the confidence of the first of the words with indexes in I.
MergedFirst(words, I) ==
    [bbox |-> words[SetMin(I)].bbox, confidence |-> <<words[SetMin(I)].conf, 100>>]

\* The union box and the mean confidence of the words with indexes in I.
Merged(words, I) ==
    [bbox |-> <<SetMin({words[i].bbox[1] : i \in I}),
                SetMin({words[i].bbox[2] : i \in I}),
                SetMax({words[i].bbox[3] : i \in I}),
                SetMax({words[i].bbox[4] : i \in I})>>,
     confidence |-> <<SumConf(words, I), 100 * Cardinality(I)>>]

SentinelBox == <<0, 0, 100, 100>>

\* The last word of the list that satisfies the test.
LastMatch(S) == SetMax(S)

\* for word in ocr_words: if <test>: return ... -- the first word of the
\* list that satisfies the test, S being the indexes of those that do.
FirstMatch(S) == SetMin(S)

\* match_value_to_ocr_bbox(value, ocr_words, img_width, img_height)
match_value_to_ocr_bbox(value, words) ==
    IF value = <<>> \/ words = <<>>
    THEN [bbox |-> SentinelBox, confidence |-> <<5, 10>>]
    ELSE
    LET value_lower == Strip(LowerStr(value))
        n == Len(words)
        ocr_texts == [i \in 1..n |-> LowerStr(words[i].text)]
        exact == {i \in 1..n : ocr_texts[i] = value_lower}
        matching == {i \in 1..n : \/ IsSubstr(value_lower, ocr_texts[i])
                                  \/ IsSubstr(ocr_texts[i], value_lower)}
        k == Len(Split(value_lower))
        candidate(i) == Join(SubSeq(ocr_texts, i + 1, Min(i + k, n)))
        starts == {i \in 0..(n - 1) : \/ IsSubstr(value_lower, candidate(i))
                                      \/ IsSubstr(candidate(i), value_lower)}
    IN IF exact # {}
       THEN [bbox |-> words[FirstMatch(exact)].bbox,
             confidence |-> <<words[FirstMatch(exact)].conf, 100>>]
       ELSE IF matching # {}
       THEN Merged(words, matching)
       ELSE IF k > 1 /\ IsSubstr(value_lower, Join(ocr_texts)) /\ starts # {}
       THEN Merged(words, (SetMin(starts) + 1)..Min(SetMin(starts) + k, n))
       ELSE [bbox |-> SentinelBox, confidence |-> <<3, 10>>]

\* a > b, a >= b and max on fractions
FracGT(a, b) == a[1] * b[2] > b[1] * a[2]
FracMax(a, b) == IF FracGT(b, a) THEN b ELSE a

\* int(1000 * x / dim): the quotient is truncated.
Scale1000(x, dim) == (1000 * x) \div dim

\* extract_fields_with_donut, lines 692-701: the pixel box of a field is
\* scaled by the image size.
NormalizeField(bbox, w, h) ==
    <<Scale1000(bbox[1], w), Scale1000(bbox[2], h),
      Scale1000(bbox[3], w), Scale1000(bbox[4], h)>>

\* The assumed page size of the regex path (A4 in points).
A4Width == 595
A4Height == 842

\* PaddleOCR's box: the four corners of the word's rectangle.
Polygon(b) == <<<<b[1], b[2]>>, <<b[3], b[2]>>, <<b[3], b[4]>>, <<b[1], b[4]>>>>

\* process_document/app.py lines 124-137: min/max of the corners, scaled by
\* the assumed page size.
NormalizeA4(paddle_bbox) ==
    LET xs == {paddle_bbox[i][1] : i \in 1..4}
        ys == {paddle_bbox[i][2] : i \in 1..4}
    IN <<(SetMin(xs) * 1000) \div A4Width, (SetMin(ys) * 1000) \div A4Height,
         (SetMax(xs) * 1000) \div A4Width, (SetMax(ys) * 1000) \div A4Height>>

DefaultRegexBox == <<100, 100, 300, 140>>

\* Bounds of the extraction model.
MaxWords == 2

\* The images: <<width, height>> in pixels.
Images == {<<50, 80>>, <<100, 100>>, <<640, 480>>, <<1000, 1000>>, <<1654, 2339>>}

WordTexts == {<<"a">>, <<"A", "b">>, <<"b">>}
\* Model answers and regex captures; <<"c">> is in no OCR word.
Values == {<<"a">>, <<"a", "b">>, <<"a", " ", "b">>, <<"c">>, <<>>}
\* Model scores, as fractions: one below the 0.1 accept threshold.
Scores == {<<5, 100>>, <<9, 10>>}

\* Pixel boxes of OCR words of a w x h image: all inside the image.
WordBoxes(w, h) ==
    {<<0, 0, w, h>>, <<w \div 3, h \div 3, w \div 2, h \div 2>>, <<w - 1, h - 1, w, h>>}

WordsOf(w, h) ==
    {[text |-> t, bbox |-> b, conf |-> 90] : t \in WordTexts, b \in WordBoxes(w, h)}

NoField ==
    [source |-> None, value |-> <<>>, bbox |-> SentinelBox, confidence |-> <<0, 1>>,
     emitted |-> FALSE]

\* One question of extract_invoice_fields_layoutlm answered with (answer,
\* score), then the normalisation of extract_fields_with_donut: the field of
\* the response, if the answer is accepted.
DonutField(answer, score) ==
    /\ LET value == Strip(answer)
           bbox_match == match_value_to_ocr_bbox(value, ocr_words)
       IN outField' =
            IF value # <<>> /\ FracGT(score, <<1, 10>>)
            THEN [source |-> "layoutlm_qa", value |-> value,
                  bbox |-> NormalizeField(bbox_match.bbox, img[1], img[2]),
                  confidence |-> FracMax(score, bbox_match.confidence),
                  emitted |-> TRUE]
            ELSE NoField
    /\ UNCHANGED <<img, ocr_words, rt>>
    /\ UNCHANGED <<storeVars, raceVars, transferVars, batchVars, extractionVars>>

\* One pattern of extract_invoice_fields (process_document/app.py) that
\* captured value: the field it appends.
RegexField(capture) ==
    /\ LET value == Strip(capture)
           hits == {i \in 1..Len(ocr_words) :
                       IsSubstr(LowerStr(value), LowerStr(ocr_words[i].text))}
       IN outField' =
            [source |-> "ocr_pattern", value |-> value,
             bbox |-> IF hits = {} THEN DefaultRegexBox
                      ELSE NormalizeA4(Polygon(ocr_words[SetMin(hits)].bbox)),
             confidence |-> IF hits = {} THEN <<85, 100>>
                            ELSE <<ocr_words[SetMin(hits)].conf, 100>>,
             emitted |-> TRUE]
    /\ UNCHANGED <<img, ocr_words, rt>>
    /\ UNCHANGED <<storeVars, raceVars, transferVars, batchVars, extractionVars>>

(***************************************************************************)
(* The round trip: normalize_bbox, then the pixel conversion of            *)
(* reextract_bbox.                                                         *)
(***************************************************************************)

\* int((x / img) * 1000)
Norm1(x, dim) == (x * 1000) \div dim

\* normalize_bbox with the two image dimensions exchanged.
normalize_bbox_swapped(bbox, img_w, img_h) ==
    IF Len(bbox) # 4 THEN SentinelBox
    ELSE <<Norm1(bbox[1], img_h), Norm1(bbox[2], img_w),
           Norm1(bbox[3], img_h), Norm1(bbox[4], img_w)>>

\* normalize_bbox(bbox, img_w, img_h); a missing box is the empty sequence.
normalize_bbox(bbox, img_w, img_h) ==
    IF Len(bbox) # 4 THEN SentinelBox
    ELSE <<Norm1(bbox[1], img_w), Norm1(bbox[2], img_h),
           Norm1(bbox[3], img_w), Norm1(bbox[4], img_h)>>

\* int((n / 1000.0) * dim): n / 1000.0 is rounded to a double unless n is a
\* multiple of 125, so a product that is exactly an integer may be computed
\* just below it and truncate to one less (n = 580, dim = 50 gives 28).
Denorm1(n, dim) ==
    {(n * dim) \div 1000} \cup
    (IF (n * dim) % 1000 = 0 /\ n % 125 # 0 THEN {((n * dim) \div 1000) - 1} ELSE {})

\* max(0, min(x, dim))
Clamp(x, dim) == Max(0, Min(x, dim))

\* reextract_bbox lines 1219-1227: the pixel boxes the conversion can give.
Denormalize(bbox, img_w, img_h) ==
    {<<Clamp(x1, img_w), Clamp(y1, img_h), Clamp(x2, img_w), Clamp(y2, img_h)>> :
        x1 \in Denorm1(bbox[1], img_w), y1 \in Denorm1(bbox[2], img_h),
        x2 \in Denorm1(bbox[3], img_w), y2 \in Denorm1(bbox[4], img_h)}

\* The image sizes and pixel coordinates of the round trip.
RtImages ==
    {<<1, 3>>, <<7, 2>>, <<50, 100>>, <<640, 480>>, <<999, 1000>>, <<1001, 1000>>,
     <<1654, 2339>>, <<3000, 2000>>}
Coords(dim) == {x \in {0, 1, 2, 3, dim \div 3, dim \div 2, dim - 2, dim - 1, dim} :
                   0 <= x /\ x <= dim}
\* Pixel boxes inside a w x h image.
PixelBoxes(w, h) ==
    {b \in Coords(w) \X Coords(h) \X Coords(w) \X Coords(h) :
        b[1] <= b[3] /\ b[2] <= b[4]}

NoRt == [px |-> SentinelBox, norm |-> SentinelBox, back |-> SentinelBox, done |-> FALSE]

\* The pixel box rt.px is normalised and converted back.
RoundTrip ==
    /\ ~rt.done
    /\ LET norm == normalize_bbox(rt.px, img[1], img[2])
       IN \E back \in Denormalize(norm, img[1], img[2]) :
             rt' = [px |-> rt.px, norm |-> norm, back |-> back, done |-> TRUE]
    /\ UNCHANGED <<img, ocr_words, outField>>
    /\ UNCHANGED <<storeVars, raceVars, transferVars, batchVars, extractionVars>>

IdleBbox ==
    /\ img = <<1, 1>>
    /\ ocr_words = <<>>
    /\ outField = NoField
    /\ rt = NoRt

(***************************************************************************)
(* The normalisation of a box that may be degenerate.  A box that may be   *)
(* absent is a set: {} when the key is absent or None, {b} when it is b.   *)
(***************************************************************************)

NoBox == {}

\* The only element of a one-element set.
TheBox(opt) == CHOOSE b \in opt : TRUE

\* Python's "not bbox": None and the empty list are false.
Falsy(opt) == opt = NoBox \/ opt = {<<>>}

\* convert_donut_to_standard_format, lines 778-785: the leaf's box is
\* value.get("bounding_box", value.get("bbox", [])), handed to normalize_bbox.
NormalizeLeaf(opt, img_w, img_h) ==
    [raised |-> FALSE,
     bbox |-> {normalize_bbox(IF Falsy(opt) THEN <<>> ELSE TheBox(opt), img_w, img_h)}]

\* extract_fields_with_donut, lines 692-701: a field without a box is left
\* as it is; x1, y1, x2, y2 = field["bbox"] raises ValueError unless the box
\* has four elements, and the function re-raises (lines 714-716).
NormalizeFields(opt, image_width, image_height) ==
    IF Falsy(opt) THEN [raised |-> FALSE, bbox |-> opt]
    ELSE IF Len(TheBox(opt)) # 4 THEN [raised |-> TRUE, bbox |-> NoBox]
    ELSE [raised |-> FALSE,
          bbox |-> {NormalizeField(TheBox(opt), image_width, image_height)}]

NoNorm == [path |-> None, raised |-> FALSE, bbox |-> NoBox, done |-> FALSE]

\* A leaf of the Donut output is converted.
ConvertLeaf ==
    /\ ~normResp.done
    /\ normResp' = [path |-> "convert_donut_to_standard_format", done |-> TRUE]
                      @@ NormalizeLeaf(rawBox, img[1], img[2])
    /\ UNCHANGED <<rawBox, matchVars, fuzzyVars, qaVars, inputVars>>
    /\ UNCHANGED <<storeVars, raceVars, transferVars, batchVars, bboxVars, pipelineVars>>

\* A field of the Q&A orchestrator is normalised for the response.
NormalizeResponseField ==
    /\ ~normResp.done
    /\ normResp' = [path |-> "extract_fields_with_donut", done |-> TRUE]
                      @@ NormalizeFields(rawBox, img[1], img[2])
    /\ UNCHANGED <<rawBox, matchVars, fuzzyVars, qaVars, inputVars>>
    /\ UNCHANGED <<storeVars, raceVars, transferVars, batchVars, bboxVars, pipelineVars>>

\* The boxes handed to the normalisations of a w x h image: absent, empty,
\* of a wrong length, and inside the image.
RawBoxes(w, h) ==
    {NoBox, {<<>>}, {<<w>>}, {<<0, 0, w>>}, {<<0, 0, w, h, 0>>},
     {<<0, 0, w, h>>}, {<<w \div 2, h \div 2, w, h>>}, {<<1, 1, 1, 1>>}}

Degenerate(opt) == Falsy(opt) \/ Len(TheBox(opt)) # 4

IdleNorm ==
    /\ rawBox = NoBox
    /\ normResp = NoNorm

(***************************************************************************)
(* The Evidence Matcher on its own: match_value_to_ocr_bbox applied to a   *)
(* value and the OCR word list of a page.                                  *)
(***************************************************************************)

\* Bound of the matcher model: the number of OCR words of the page.
MaxMatchWords == 3

\* Texts of OCR words (perform_ocr_get_words strips them and skips the empty
\* ones; Tesseract words hold no whitespace).
MatchTexts == {<<"a">>, <<"A">>, <<"b">>, <<"a", "b">>, <<"c", "a">>, <<"b", "c">>}

\* Values: one token, two tokens, surrounded by whitespace, only whitespace,
\* in no word, and empty.
MatchValues ==
    {<<"a">>, <<"a", " ", "b">>, <<"A", " ", "b">>, <<" ", "a">>, <<" ">>, <<"d">>,
     <<"d", " ", "d">>, <<>>}

\* perform_ocr_get_words, lines 143-154: the i-th word of the page, with the
\* box [x, y, x + w, y + h] and the confidence Tesseract gave it.
PageWords(texts) ==
    [i \in 1..Len(texts) |->
        [text |-> texts[i], bbox |-> <<10 * i, 5 + i, 10 * i + 8, 15>>,
         conf |-> 100 - 10 * i]]

NoMatch == [bbox |-> SentinelBox, confidence |-> <<0, 1>>, done |-> FALSE]

\* match_value_to_ocr_bbox(value, ocr_words, img_width, img_height)
MatchValue ==
    /\ ~matchResp.done
    /\ matchResp' = [done |-> TRUE] @@ match_value_to_ocr_bbox(mvalue, ocr_words)
    /\ UNCHANGED <<mvalue, normVars, fuzzyVars, qaVars, inputVars>>
    /\ UNCHANGED <<storeVars, raceVars, transferVars, batchVars, bboxVars, pipelineVars>>

IdleMatch ==
    /\ mvalue = <<>>
    /\ matchResp = NoMatch

(***************************************************************************)
(* The similarity-based variant: match_field_to_ocr.                       *)
(***************************************************************************)

\* Bound of the variant's model: the number of OCR entries.
MaxEntries == 2

\* difflib.SequenceMatcher(None, a, b): the number of matched characters.
\* The longest common block is taken (the earliest in a, then the earliest
\* in b), then the pieces to its left and to its right are matched.
RECURSIVE MatchedChars(_, _)
MatchedChars(a, b) ==
    LET blocks == {blk \in (1..Len(a)) \X (1..Len(b)) \X (1..Min(Len(a), Len(b))) :
                      /\ blk[1] + blk[3] - 1 <= Len(a)
                      /\ blk[2] + blk[3] - 1 <= Len(b)
                      /\ SubSeq(a, blk[1], blk[1] + blk[3] - 1)
                            = SubSeq(b, blk[2], blk[2] + blk[3] - 1)}
    IN IF blocks = {} THEN 0
       ELSE LET best == CHOOSE blk \in blocks : \A o \in blocks :
                           \/ blk[3] > o[3]
                           \/ blk[3] = o[3] /\ blk[1] < o[1]
                           \/ blk[3] = o[3] /\ blk[1] = o[1] /\ blk[2] <= o[2]
            IN best[3]
               + MatchedChars(SubSeq(a, 1, best[1] - 1), SubSeq(b, 1, best[2] - 1))
               + MatchedChars(SubSeq(a, best[1] + best[3], Len(a)),
                              SubSeq(b, best[2] + best[3], Len(b)))

\* SequenceMatcher.ratio(): 2 * matches / (len(a) + len(b)), 1 for two empty
\* strings; a fraction.
Ratio(a, b) ==
    IF Len(a) + Len(b) = 0 THEN <<1, 1>> ELSE <<2 * MatchedChars(a, b), Len(a) + Len(b)>>

\* The entry the scoring loop of lines 846-852 keeps: the first entry with
\* the highest score, if that score is above 0; 0 when there is none.
BestEntry(target, entries) ==
    LET score(i) == Ratio(target, LowerStr(entries[i].text))
        cands == {i \in 1..Len(entries) :
                     /\ FracGT(score(i), <<0, 1>>)
                     /\ \A j \in 1..Len(entries) :
                           /\ ~FracGT(score(j), score(i))
                           /\ j < i => FracGT(score(i), score(j))}
    IN IF cands = {} THEN 0 ELSE SetMin(cands)

\* min(1.0, max(0.0, x)) on a fraction with a positive denominator.
Clamp01(x) == IF x[1] < 0 THEN <<0, 1>> ELSE IF x[1] > x[2] THEN <<1, 1>> ELSE x

\* (donut_conf + ocr_conf) / 2.0 clamped; confidences are in percent, a
\* missing one is the empty set.  Its three decimals survive round(, 3).
CombinedConf(field, best) ==
    LET donut_conf == IF field.confidence = {} THEN 50
                      ELSE CHOOSE c \in field.confidence : TRUE
        ocr_conf == IF best.conf = {} THEN 0 ELSE CHOOSE c \in best.conf : TRUE
    IN Clamp01(<<donut_conf + ocr_conf, 200>>)

\* match_field_to_ocr(field, ocr_entries, img_w, img_h): the field it
\* returns; matched_ocr is the index of the entry used, 0 when none is.
match_field_to_ocr(field, entries, img_w, img_h) ==
    LET val == Strip(field.value)
        target == LowerStr(val)
        b == BestEntry(target, entries)
        unchanged == [value |-> field.value, bbox |-> field.bbox,
                      confidence |-> field.confidence, matched_ocr |-> 0]
    IN IF val = <<>> \/ entries = <<>> THEN unchanged
       ELSE IF b # 0 /\ FracGT(Ratio(target, LowerStr(entries[b].text)), <<45, 100>>)
       THEN LET x1 == entries[b].left
                y1 == entries[b].top
                x2 == x1 + entries[b].width
                y2 == y1 + entries[b].height
            IN [value |-> field.value,
                bbox |-> <<Norm1(x1, img_w), Norm1(y1, img_h),
                           Norm1(x2, img_w), Norm1(y2, img_h)>>,
                confidence |-> {CombinedConf(field, entries[b])},
                matched_ocr |-> b]
       ELSE unchanged

\* The fields convert_donut_to_standard_format produces: a value, a
\* normalised box and a confidence in percent (lines 780-788) or none.
DonutFields ==
    {[value |-> v, bbox |-> <<10, 10, 50, 20>>, confidence |-> c] :
        v \in {<<"a", "b">>, <<" ", "A", "b">>, <<>>}, c \in {{}, {0}, {90}}}

\* OCR entries: text, left, top, width, height, conf (Tesseract's 0..100,
\* -1 for a block without text, or None).
EntryTexts == {<<"a", "b">>, <<"A", "c">>, <<"c", "d">>, <<"b", "c", "d", "d">>}
Entries(texts, confs) ==
    [i \in 1..Len(texts) |->
        [text |-> texts[i], left |-> 100 * i, top |-> 20, width |-> 50,
         height |-> 10, conf |-> confs[i]]]

NoFuzzy ==
    [value |-> <<>>, bbox |-> SentinelBox, confidence |-> {}, matched_ocr |-> 0,
     done |-> FALSE]

\* A converted field is enriched from the OCR entries.
MatchField ==
    /\ ~fuzzyResp.done
    /\ fuzzyResp' = [done |-> TRUE]
                       @@ match_field_to_ocr(donutField, ocr_entries, img[1], img[2])
    /\ UNCHANGED <<donutField, ocr_entries, normVars, matchVars, qaVars, inputVars>>
    /\ UNCHANGED <<storeVars, raceVars, transferVars, batchVars, bboxVars, pipelineVars>>

IdleFuzzy ==
    /\ donutField = [value |-> <<>>, bbox |-> SentinelBox, confidence |-> {}]
    /\ ocr_entries = <<>>
    /\ fuzzyResp = NoFuzzy

(***************************************************************************)
(* The Q&A orchestrator: POST /extract runs extract_fields_with_donut,     *)
(* which runs extract_invoice_fields_layoutlm.  A label is a record: the   *)
(* key of the question and the row of the suffix "_row_<n>" (0: no         *)
(* suffix).  Scores are fractions.                                         *)
(***************************************************************************)

\* Bound of the orchestrator model: the number of questions of a request
\* that the model does not simply answer.
MaxDeviations == 2

\* top_k of a line-item question, and the number of its answers processed.
TopK == 5

Label(key) == [key |-> key, row |-> 0]

\* The custom field definitions of a request: a line-item field, a text
\* field, one without a question and one that overrides a default question
\* with a line-item question.
LineTotal == [key |-> "line_total", question |-> TRUE, category |-> "line_items"]
Notes == [key |-> "notes", question |-> TRUE, category |-> "other"]
Untitled == [key |-> "untitled", question |-> FALSE, category |-> "other"]
TotalRows == [key |-> "total_amount", question |-> TRUE, category |-> "line_items"]
CustomFieldLists ==
    {<<>>, <<LineTotal>>, <<LineTotal, Notes>>, <<Untitled, LineTotal>>, <<TotalRows>>}

\* Lines 409-435: the default questions, in the order of the dict.
DefaultConfigs ==
    [i \in 1..Len(DefaultQuestions) |->
        [label |-> Label(DefaultQuestions[i]), category |-> "invoice"]]

\* Lines 445-463: questions[field_key] = {...}; a key the dict holds keeps
\* its place, a new key goes last; a field without key or question is
\* skipped.
RECURSIVE BuildQuestions(_, _)
BuildQuestions(qs, custom) ==
    IF custom = <<>> THEN qs
    ELSE LET f == Head(custom)
             cfg == [label |-> Label(f.key), category |-> f.category]
             held == {i \in 1..Len(qs) : qs[i].label = cfg.label}
         IN BuildQuestions(
                IF ~f.question THEN qs
                ELSE IF held # {} THEN [qs EXCEPT ![SetMin(held)] = cfg]
                ELSE Append(qs, cfg),
                Tail(custom))

\* Any non-empty answer is accepted.
AcceptedAny(answer, confidence) == answer # <<>>

\* Line 515: answer and confidence > 0.1
Accepted(answer, confidence) == answer # <<>> /\ FracGT(confidence, <<1, 10>>)

\* The fields are dropped when a question fails.
AfterRaiseAbort(st) == [fields |-> <<>>, field_id |-> st.field_id]

\* Lines 573-575: except Exception: continue -- the fields emitted so far
\* are kept.
AfterRaise(st) == st

\* Lines 510-571: the answers of one question, from the i-th on.  st holds
\* the list fields and the counter field_id.
RECURSIVE ProcessAnswers(_, _, _, _, _)
ProcessAnswers(cfg, results, i, st, words) ==
    IF i > Len(results) THEN st
    ELSE LET answer == Strip(results[i].answer)
             confidence == results[i].score
             is_line_item == cfg.category = "line_items"
             existing_values ==
                {st.fields[j].value :
                    j \in {k \in 1..Len(st.fields) : st.fields[k].label = cfg.label}}
             duplicate == is_line_item /\ i > 1 /\ answer \in existing_values
             bbox_match == match_value_to_ocr_bbox(answer, words)
             field == [id |-> st.field_id,
                       label |-> IF is_line_item
                                 THEN [key |-> cfg.label.key, row |-> i]
                                 ELSE cfg.label,
                       value |-> answer,
                       bbox |-> bbox_match.bbox,
                       confidence |-> FracMax(confidence, bbox_match.confidence),
                       is_line_item |-> is_line_item]
         IN ProcessAnswers(cfg, results, i + 1,
                IF Accepted(answer, confidence) /\ ~duplicate
                THEN [fields |-> Append(st.fields, field), field_id |-> st.field_id + 1]
                ELSE st,
                words)

\* Lines 476-575: one question of the loop, outcome being what the model
\* call does: it raises, or it returns a ranked list of answers.
ProcessQuestion(cfg, outcome, st, words) ==
    IF outcome.raises THEN AfterRaise(st)
    ELSE LET max_results == IF cfg.category = "line_items" THEN TopK ELSE 1
         IN ProcessAnswers(cfg, SubSeq(outcome.result, 1,
                                       Min(max_results, Len(outcome.result))),
                           1, st, words)

\* extract_fields_with_donut, lines 692-701, on the whole list.
NormalizeAll(fields, image_width, image_height) ==
    [i \in 1..Len(fields) |->
        [fields[i] EXCEPT !.bbox = NormalizeField(@, image_width, image_height)]]

\* What the model can do with a question.
Raises == [raises |-> TRUE, result |-> <<>>]
Returns(result) == [raises |-> FALSE, result |-> result]
Ans(text, num, den) == [answer |-> text, score |-> <<num, den>>]

\* The plain outcome: one good answer, or two different rows.
Plain(cfg) ==
    IF cfg.category = "line_items"
    THEN Returns(<<Ans(<<"a">>, 9, 10), Ans(<<"b">>, 8, 10)>>)
    ELSE Returns(<<Ans(<<"a">>, 9, 10)>>)

\* The other outcomes: the call raises, returns nothing, an answer below or
\* at the threshold, a blank answer; for a line-item question, rows that
\* repeat an answer.
Deviations(cfg) ==
    IF cfg.category = "line_items"
    THEN <<Raises,
           Returns(<<>>),
           Returns(<<Ans(<<"a">>, 9, 10), Ans(<<"a">>, 8, 10)>>),
           Returns(<<Ans(<<"a">>, 9, 10), Ans(<<"b">>, 8, 10), Ans(<<" ", "a">>, 7, 10)>>),
           Returns(<<Ans(<<"b">>, 5, 100), Ans(<<"c">>, 9, 10), Ans(<<" ">>, 9, 10)>>)>>
    ELSE <<Raises,
           Returns(<<>>),
           Returns(<<Ans(<<"a">>, 5, 100)>>),
           Returns(<<Ans(<<"a">>, 1, 10)>>),
           Returns(<<Ans(<<" ">>, 9, 10)>>)>>

\* The oracles for the questions qs: all but the questions of D get the
\* plain outcome, question i of D gets its d[i]-th deviation.
OracleOf(qs, D, d) ==
    [l \in {qs[i].label : i \in 1..Len(qs)} |->
        LET i == CHOOSE j \in 1..Len(qs) : qs[j].label = l
        IN IF i \in D THEN Deviations(qs[i])[d[i]] ELSE Plain(qs[i])]

NoQA ==
    [pc |-> "idle", doc_qa |-> FALSE, words |-> <<>>, pos |-> 1, fields |-> <<>>,
     field_id |-> 1, asked |-> <<>>, status |-> None, out |-> <<>>]

QAOthers == <<normVars, matchVars, fuzzyVars, inputVars>>

\* Line 395: doc_qa = load_layoutlm_model().  When the pipeline cannot be
\* built the exception is caught at line 580 and the function returns [].
load_layoutlm_model ==
    /\ qa.pc = "load"
    /\ qa' = IF collab.model
             THEN [qa EXCEPT !.pc = "ocr", !.doc_qa = TRUE]
             ELSE [qa EXCEPT !.pc = "respond", !.fields = <<>>]
    /\ UNCHANGED <<questions, oracle, collab, QAOthers>>
    /\ UNCHANGED <<storeVars, raceVars, transferVars, batchVars, bboxVars, pipelineVars>>

\* Line 403: ocr_words = perform_ocr_get_words(image_path), which returns []
\* when Tesseract fails (lines 165-167).
perform_ocr_get_words ==
    /\ qa.pc = "ocr"
    /\ qa' = [qa EXCEPT !.pc = "ask",
                        !.words = IF collab.ocr THEN ocr_words ELSE <<>>]
    /\ UNCHANGED <<questions, oracle, collab, QAOthers>>
    /\ UNCHANGED <<storeVars, raceVars, transferVars, batchVars, bboxVars, pipelineVars>>

\* One turn of the loop of line 475: the next question is put to the model.
AskQuestion ==
    /\ qa.pc = "ask"
    /\ qa.pos <= Len(questions)
    /\ LET cfg == questions[qa.pos]
           st == ProcessQuestion(cfg, oracle[cfg.label],
                                 [fields |-> qa.fields, field_id |-> qa.field_id],
                                 qa.words)
       IN qa' = [qa EXCEPT !.pos = @ + 1,
                           !.asked = Append(@, cfg.label),
                           !.fields = st.fields,
                           !.field_id = st.field_id]
    /\ UNCHANGED <<questions, oracle, collab, QAOthers>>
    /\ UNCHANGED <<storeVars, raceVars, transferVars, batchVars, bboxVars, pipelineVars>>

\* Line 578: the loop is over and the fields are returned.
ReturnFields ==
    /\ qa.pc = "ask"
    /\ qa.pos > Len(questions)
    /\ qa' = [qa EXCEPT !.pc = "respond"]
    /\ UNCHANGED <<questions, oracle, collab, QAOthers>>
    /\ UNCHANGED <<storeVars, raceVars, transferVars, batchVars, bboxVars, pipelineVars>>

\* extract_fields_with_donut lines 692-701 and extract_document line 981:
\* the boxes are normalised and the response is a success.
extract_document ==
    /\ qa.pc = "respond"
    /\ qa' = [qa EXCEPT !.pc = "done",
                        !.status = "success",
                        !.out = NormalizeAll(qa.fields, img[1], img[2])]
    /\ UNCHANGED <<questions, oracle, collab, QAOthers>>
    /\ UNCHANGED <<storeVars, raceVars, transferVars, batchVars, bboxVars, pipelineVars>>

IdleQA ==
    /\ questions = <<>>
    /\ oracle = <<>>
    /\ collab = [model |-> TRUE, ocr |-> TRUE]
    /\ qa = NoQA

(***************************************************************************)
(* The input validation of /apply-template-intelligent and of              *)
(* /reextract-bbox: one request served alone, with the processing steps    *)
(* the handler took before it answered.  The collaborators work.           *)
(***************************************************************************)

\* template_fields of a payload: absent, empty, or a list of template
\* fields whose box is absent, well-formed, too short or too long.
TemplateFieldLists ==
    {{}, {<<>>},
     {<<[bbox |-> {<<100, 100, 200, 120>>}]>>},
     {<<[bbox |-> {<<100, 100, 200, 120>>}], [bbox |-> NoBox]>>},
     {<<[bbox |-> {<<100, 100, 200, 120>>}], [bbox |-> {<<100, 100>>}]>>},
     {<<[bbox |-> {<<0, 0, 10, 10, 0>>}]>>}}

\* The JSON bodies: data is false for an empty body, image for a missing
\* image; bbox is the box of a /reextract-bbox request.
RequestBodies ==
    [data : BOOLEAN, image : BOOLEAN, format : Formats,
     template_fields : TemplateFieldLists, bbox : RawBoxes(1000, 1000)]

\* Lines 1698-1722: the document is written to disk and, for a PDF,
\* rasterised and its page saved.
RasterSteps(format) ==
    IF format = "pdf" THEN <<"write_disk", "rasterize", "write_disk">>
    ELSE <<"write_disk">>

\* Lines 1781-1786: bbox = t.get("bbox", [0, 0, 1000, 1000]) and bbox[0],
\* bbox[2], bbox[1], bbox[3] are read; a shorter box raises IndexError.
CentersRaise(fields) ==
    \E i \in 1..Len(fields) :
        fields[i].bbox # NoBox /\ Len(TheBox(fields[i].bbox)) < 4

Answer(code, steps) == [code |-> code, steps |-> steps, done |-> TRUE]

\* apply_template_intelligent, lines 1669-2206, for one request.
apply_template_intelligent ==
    /\ ~inputResp.done
    /\ inputResp' = [handler |-> "apply_template_intelligent"] @@
          (IF ~reqBody.data \/ ~reqBody.image
           THEN Answer(400, <<>>)
           ELSE LET steps == <<"load_model">> \o RasterSteps(reqBody.format) \o <<"ocr">>
                IN IF reqBody.template_fields \in {{}, {<<>>}}
                   THEN Answer(400, steps)
                   ELSE IF CentersRaise(TheBox(reqBody.template_fields))
                   THEN Answer(500, steps)
                   ELSE Answer(200, steps \o <<"transfer">>))
    /\ UNCHANGED <<reqBody, normVars, matchVars, fuzzyVars, qaVars>>
    /\ UNCHANGED <<storeVars, raceVars, transferVars, batchVars, bboxVars, pipelineVars>>

\* reextract_bbox, lines 1158-1300, for one request.
reextract_bbox ==
    /\ ~inputResp.done
    /\ inputResp' = [handler |-> "reextract_bbox"] @@
          (IF ~reqBody.data THEN Answer(400, <<>>)
           ELSE IF ~reqBody.image THEN Answer(400, <<>>)
           ELSE IF Falsy(reqBody.bbox) \/ Len(TheBox(reqBody.bbox)) # 4
           THEN Answer(400, <<>>)
           ELSE Answer(200, (IF reqBody.format = "pdf"
                             THEN <<"write_disk", "rasterize", "write_disk">>
                             ELSE <<"write_disk">>) \o <<"ocr">>))
    /\ UNCHANGED <<reqBody, normVars, matchVars, fuzzyVars, qaVars>>
    /\ UNCHANGED <<storeVars, raceVars, transferVars, batchVars, bboxVars, pipelineVars>>

NoPayload ==
    [data |-> FALSE, image |-> FALSE, format |-> "png", template_fields |-> {},
     bbox |-> NoBox]

NoAnswer == [handler |-> None, code |-> 0, steps |-> <<>>, done |-> FALSE]

IdleInput ==
    /\ reqBody = NoPayload
    /\ inputResp = NoAnswer

\* No run, no request and no response of the pipelines modelled below.
NotDone == [done |-> FALSE]

IdleSim == ocrText = <<>> /\ simRuns = <<>>

IdleEngine == tplReq = <<>> /\ tplResp = NotDone

IdlePattern == patWords = <<>> /\ patResp = NotDone

IdleLines == lineInput = <<>> /\ lineResp = NotDone

IdlePipeline == IdleSim /\ IdleEngine /\ IdlePattern /\ IdleLines

IdleExtraction == IdleNorm /\ IdleMatch /\ IdleFuzzy /\ IdleQA /\ IdleInput /\ IdlePipeline

(***************************************************************************)
(* Line grouping: group_words_into_lines and merge_line_words.  A word is  *)
(* [text, bbox, confidence] with the confidence in hundredths.             *)
(***************************************************************************)

\* Bound of the line model: the number of OCR words of the page.
MaxLineWords == 3

\* The top-Y and left-X pixel positions the words are drawn from, and the
\* image heights (1% of which is below and above 10 px).
LineYs == {0, 6, 10, 12, 25}
LineXs == {0, 40}
ImageHeights == {500, 2000}

LineWords ==
    {[text |-> IF x = 0 THEN <<"a">> ELSE <<"b">>,
      bbox |-> <<x, y, x + 30, y + 8>>,
      confidence |-> 90 - x] : x \in LineXs, y \in LineYs}

Dist(a, b) == IF a < b THEN b - a ELSE a - b

\* The sort key (w["bbox"][1], w["bbox"][0]) of a is at most that of b.
KeyLeq(a, b) ==
    \/ a.bbox[2] < b.bbox[2]
    \/ a.bbox[2] = b.bbox[2] /\ a.bbox[1] <= b.bbox[1]

\* sorted(ocr_words, key=...): Python's sort is stable.
RECURSIVE sorted_words(_)
sorted_words(ws) ==
    IF ws = <<>> THEN <<>>
    ELSE LET s == sorted_words(SubSeq(ws, 1, Len(ws) - 1))
             w == ws[Len(ws)]
             k == Cardinality({i \in 1..Len(s) : KeyLeq(s[i], w)})
         IN SubSeq(s, 1, k) \o <<w>> \o SubSeq(s, k + 1, Len(s))

\* max(10, image_height * 0.01), in hundredths of a pixel.
line_threshold(image_height) == Max(1000, image_height)

\* The loop of lines 609-628: the word lists of the lines, current_line
\* being the line under construction.
RECURSIVE GroupLoop(_, _, _, _)
GroupLoop(rest, thr, groups, current_line) ==
    IF rest = <<>>
    THEN IF current_line # <<>> THEN Append(groups, current_line) ELSE groups
    ELSE LET word == Head(rest)
         IN IF current_line = <<>>
            THEN GroupLoop(Tail(rest), thr, groups, <<word>>)
            ELSE LET prev_y == current_line[Len(current_line)].bbox[2]
                     curr_y == word.bbox[2]
                 IN IF 100 * Dist(curr_y, prev_y) < thr
                    THEN GroupLoop(Tail(rest), thr, groups, Append(current_line, word))
                    ELSE GroupLoop(Tail(rest), thr, Append(groups, current_line), <<word>>)

RECURSIVE SumConfidence(_)
SumConfidence(words) ==
    IF words = <<>> THEN 0 ELSE Head(words).confidence + SumConfidence(Tail(words))

\* merge_line_words: the joined text, the union box, the mean confidence (a
\* fraction) and the word count.
merge_line_words(words) ==
    [text |-> Join([i \in 1..Len(words) |-> words[i].text]),
     bbox |-> <<SetMin({words[i].bbox[1] : i \in 1..Len(words)}),
                SetMin({words[i].bbox[2] : i \in 1..Len(words)}),
                SetMax({words[i].bbox[3] : i \in 1..Len(words)}),
                SetMax({words[i].bbox[4] : i \in 1..Len(words)})>>,
     confidence |-> <<SumConfidence(words), 100 * Len(words)>>,
     word_count |-> Len(words)]

\* The word lists of the lines group_words_into_lines builds.
LineGroups(words, image_height) ==
    IF words = <<>> THEN <<>>
    ELSE GroupLoop(sorted_words(words), line_threshold(image_height), <<>>, <<>>)

\* group_words_into_lines(words, image_height)
group_words_into_lines(words, image_height) ==
    LET groups == LineGroups(words, image_height)
    IN [i \in 1..Len(groups) |-> merge_line_words(groups[i])]

\* One call of group_words_into_lines; groups keeps the words of each line.
GroupWords ==
    /\ ~lineResp.done
    /\ lineResp' =
         [done |-> TRUE,
          lines |-> group_words_into_lines(lineInput.words, lineInput.image_height),
          groups |-> LineGroups(lineInput.words, lineInput.image_height)]
    /\ UNCHANGED <<lineInput, simVars, engineVars, patternVars>>
    /\ UNCHANGED <<normVars, matchVars, fuzzyVars, qaVars, inputVars>>
    /\ UNCHANGED <<storeVars, raceVars, transferVars, batchVars, bboxVars>>

(***************************************************************************)
(* The Column/Template Transfer Engine: apply_template_intelligent from    *)
(* the template analysis (line 1776) to its response.  Boxes are in        *)
(* normalised units; a centre (a + b) / 2 is kept as its double a + b, so  *)
(* that half units are exact.  conf is in percent.                         *)
(***************************************************************************)

\* Bound of the engine model: the number of OCR text blocks of the page.
MaxBlocks == 3

UpperLetters ==
    <<"A", "B", "C", "D", "E", "F", "G", "H", "I", "J", "K", "L", "M",
      "N", "O", "P", "Q", "R", "S", "T", "U", "V", "W", "X", "Y", "Z">>
LowerLetters ==
    <<"a", "b", "c", "d", "e", "f", "g", "h", "i", "j", "k", "l", "m",
      "n", "o", "p", "q", "r", "s", "t", "u", "v", "w", "x", "y", "z">>
DigitChars == <<"0", "1", "2", "3", "4", "5", "6", "7", "8", "9">>

\* str.lower()
LowerCase(c) ==
    IF \E i \in 1..26 : UpperLetters[i] = c
    THEN LowerLetters[CHOOSE i \in 1..26 : UpperLetters[i] = c]
    ELSE c
LowerText(s) == [i \in 1..Len(s) |-> LowerCase(s[i])]

IsDigit(c) == \E i \in 1..10 : DigitChars[i] = c

\* any(c.isdigit() for c in text)
is_numeric(text) == \E i \in 1..Len(text) : IsDigit(text[i])

\* str(n), n >= 0
RECURSIVE Decimal(_)
Decimal(n) ==
    IF n < 10 THEN <<DigitChars[n + 1]>>
    ELSE Decimal(n \div 10) \o <<DigitChars[(n % 10) + 1]>>

\* s.replace(c, r) for a character c and a text r
RECURSIVE ReplaceAll(_, _, _)
ReplaceAll(s, c, r) ==
    IF s = <<>> THEN <<>>
    ELSE (IF Head(s) = c THEN r ELSE <<Head(s)>>) \o ReplaceAll(Tail(s), c, r)

\* s.strip("_")
RECURSIVE StripUnderscore(_)
StripUnderscore(s) ==
    IF s # <<>> /\ Head(s) = "_" THEN StripUnderscore(Tail(s))
    ELSE IF s # <<>> /\ s[Len(s)] = "_" THEN StripUnderscore(SubSeq(s, 1, Len(s) - 1))
    ELSE s

\* Twice the centre of a box.
cx2(bbox) == bbox[1] + bbox[3]
cy2(bbox) == bbox[2] + bbox[4]

\* Twice x_variance: max - min of the templates' X-centres.
x_variance2(tf) ==
    SetMax({cx2(tf[i].bbox) : i \in 1..Len(tf)})
        - SetMin({cx2(tf[i].bbox) : i \in 1..Len(tf)})

\* is_column_pattern = x_variance < 100
is_column_pattern(tf) == x_variance2(tf) < 200

RECURSIVE SumX2(_)
SumX2(tf) == IF tf = <<>> THEN 0 ELSE cx2(Head(tf).bbox) + SumX2(Tail(tf))

\* Twice min(template_y_positions).
min_template_y2(tf) == SetMin({cy2(tf[i].bbox) : i \in 1..Len(tf)})

\* Step 1: the blocks whose centre is above header_y_max = min_template_y - 20,
\* sorted by (bbox[1], bbox[0]).
potential_headers_raw(text_blocks, tf) ==
    sorted_words(SelectSeq(text_blocks,
                           LAMBDA b : cy2(b.bbox) < min_template_y2(tf) - 40))

\* The inner loop of step 1.5: the blocks from j on absorbed into merged while
\* they are on current's row and start less than 30 units right of merged.
RECURSIVE Absorb(_, _, _, _)
Absorb(raw, current, merged, j) ==
    IF j > Len(raw) THEN [merged |-> merged, j |-> j]
    ELSE LET next_block == raw[j]
             y_diff == Dist(current.bbox[2], next_block.bbox[2])
             x_gap == next_block.bbox[1] - merged.bbox[3]
         IN IF y_diff < 10 /\ 0 <= x_gap /\ x_gap < 30
            THEN Absorb(raw, current,
                        [text |-> merged.text \o <<" ">> \o next_block.text,
                         bbox |-> <<merged.bbox[1], merged.bbox[2], next_block.bbox[3],
                                    Max(merged.bbox[4], next_block.bbox[4])>>,
                         conf |-> Max(merged.conf, next_block.conf)],
                        j + 1)
            ELSE [merged |-> merged, j |-> j]

\* Step 1.5: merged_headers, from raw[i] on.
RECURSIVE merged_headers(_, _)
merged_headers(raw, i) ==
    IF i > Len(raw) THEN <<>>
    ELSE LET m == Absorb(raw, raw[i], raw[i], i + 1)
         IN <<m.merged>> \o merged_headers(raw, IF m.j > i + 1 THEN m.j ELSE i + 1)

potential_headers(text_blocks, tf) ==
    merged_headers(potential_headers_raw(text_blocks, tf), 1)

\* Step 2: the columns dict in insertion order, as [x2, blocks] with x2 twice
\* the key; a block near the templates' mean X or above the data region is
\* skipped, another joins the first column within x_tolerance = 60.
RECURSIVE GroupColumns(_, _, _)
GroupColumns(blocks, tf, columns) ==
    IF blocks = <<>> THEN columns
    ELSE LET block == Head(blocks)
             near == {c \in 1..Len(columns) : Dist(cx2(block.bbox), columns[c].x2) < 120}
         IN IF Dist(Len(tf) * cx2(block.bbox), SumX2(tf)) < 120 * Len(tf)
            THEN GroupColumns(Tail(blocks), tf, columns)
            ELSE IF cy2(block.bbox) < min_template_y2(tf) - 100
            THEN GroupColumns(Tail(blocks), tf, columns)
            ELSE IF near # {}
            THEN GroupColumns(Tail(blocks), tf,
                     [columns EXCEPT ![SetMin(near)].blocks = Append(@, block)])
            ELSE GroupColumns(Tail(blocks), tf,
                     Append(columns, [x2 |-> cx2(block.bbox), blocks |-> <<block>>]))

\* Step 2.5: use_layoutlm and len(potential_headers) < len(columns) * 0.5
\* and _doc_qa_pipeline
use_layoutlm(req, headers, columns) ==
    req.use_ai_fallback /\ 2 * Len(headers) < Len(columns) /\ req.doc_qa

\* Lines 1936-1945: the headers parsed from the model's reply.
layoutlm_headers(reply) ==
    IF reply.raises \/ reply.answer = <<>> \/ reply.answer = <<"N", "o", "n", "e">>
    THEN <<>>
    ELSE Split(ReplaceAll(reply.answer, ",", <<" ">>))

\* t.get("field_name", "").lower().replace("_", " ")
template_field_names(tf) ==
    [i \in 1..Len(tf) |-> ReplaceAll(LowerText(tf[i].field_name), "_", <<" ">>)]

\* max over the template names of fuzzy_match_score(header text, name).
RECURSIVE max_similarity(_, _)
max_similarity(text, names) ==
    IF names = <<>> THEN <<0, 1>>
    ELSE FracMax(max_similarity(text, SubSeq(names, 1, Len(names) - 1)),
                 Ratio(LowerText(text), LowerText(names[Len(names)])))

\* 0.6 * (1 - x_dist / 80) + 0.4 * max_similarity, a fraction.
combined_score(header, col_x2, tf) ==
    LET x_dist2 == Dist(cx2(header.bbox), col_x2)
        sim == max_similarity(header.text, template_field_names(tf))
    IN <<6 * (160 - x_dist2) * sim[2] + 4 * sim[1] * 160, 1600 * sim[2]>>

\* The header the loop of lines 1991-2011 keeps for a column: the first of
\* the highest-scoring headers within 80 units; 0 when there is none.
column_header(headers, col_x2, tf) ==
    LET in_range == {h \in 1..Len(headers) : Dist(cx2(headers[h].bbox), col_x2) < 160}
        best == {h \in in_range :
                    \A o \in in_range :
                        /\ ~FracGT(combined_score(headers[o], col_x2, tf),
                                   combined_score(headers[h], col_x2, tf))
                        /\ o < h => FracGT(combined_score(headers[h], col_x2, tf),
                                           combined_score(headers[o], col_x2, tf))}
    IN IF best = {} THEN 0 ELSE SetMin(best)

\* The field name kept as the header text itself.
suggested_field_name_verbatim(header_text) == header_text

\* Lines 2017-2024: the field name derived from a header text.
suggested_field_name(header_text) ==
    StripUnderscore(
        ReplaceAll(ReplaceAll(ReplaceAll(ReplaceAll(LowerText(header_text),
            " ", <<"_">>), "/", <<"_">>), ".", <<>>), "-", <<"_">>))

\* f"column_{int(col_x)}"
column_name(col_x2) ==
    <<"c", "o", "l", "u", "m", "n", "_">> \o Decimal(col_x2 \div 2)

\* sorted(col_blocks, key=centre Y), stable.
RECURSIVE col_blocks_sorted(_)
col_blocks_sorted(bs) ==
    IF bs = <<>> THEN <<>>
    ELSE LET s == col_blocks_sorted(SubSeq(bs, 1, Len(bs) - 1))
             b == bs[Len(bs)]
             k == Cardinality({i \in 1..Len(s) : cy2(s[i].bbox) <= cy2(b.bbox)})
         IN SubSeq(s, 1, k) \o <<b>> \o SubSeq(s, k + 1, Len(s))

\* Lines 2041-2052: the first of the blocks closest in Y to a template row,
\* within 60 units; 0 when there is none.
closest_block(sorted, template_y2) ==
    LET ok == {i \in 1..Len(sorted) :
                  /\ Dist(cy2(sorted[i].bbox), template_y2) < 120
                  /\ \A j \in 1..Len(sorted) :
                        Dist(cy2(sorted[j].bbox), template_y2)
                            >= Dist(cy2(sorted[i].bbox), template_y2)}
    IN IF ok = {} THEN 0 ELSE SetMin(ok)

\* The fields of one column, for the template rows from idx on.
RECURSIVE ColumnRows(_, _, _, _, _)
ColumnRows(name, header, sorted, tf, idx) ==
    IF idx > Len(tf) THEN <<>>
    ELSE LET c == closest_block(sorted, cy2(tf[idx].bbox))
         IN (IF c = 0 THEN <<>>
             ELSE <<[field_name |-> IF Len(tf) > 1
                                    THEN name \o <<"_", "i", "t", "e", "m", "_">>
                                              \o Decimal(idx)
                                    ELSE name,
                     value |-> sorted[c].text,
                     bbox |-> sorted[c].bbox,
                     confidence |-> <<sorted[c].conf, 100>>,
                     source |-> "column_suggestion",
                     column_header |-> header]>>)
            \o ColumnRows(name, header, sorted, tf, idx + 1)

\* Step 3, lines 1979-2072: the fields of the columns from c on.
RECURSIVE ColumnFields(_, _, _, _)
ColumnFields(columns, headers, tf, c) ==
    IF c > Len(columns) THEN <<>>
    ELSE LET h == column_header(headers, columns[c].x2, tf)
             name == IF h # 0 THEN suggested_field_name(headers[h].text)
                     ELSE column_name(columns[c].x2)
         IN ColumnRows(name, IF h # 0 THEN {headers[h].text} ELSE {},
                       col_blocks_sorted(columns[c].blocks), tf, 1)
            \o ColumnFields(columns, headers, tf, c + 1)

\* c * c < 4 * k * k * b (or <= when orEqual), for c >= 0 and k > 0, by
\* parts: with c = 2k * m + r the products stay small.
SquareBelow(c, k, b, orEqual) ==
    LET m == c \div (2 * k)
        r == c % (2 * k)
        d == b - m * m
    IN IF d < 0 THEN FALSE
       ELSE IF d >= 2 * m + 1 THEN TRUE
       ELSE IF orEqual THEN 4 * k * k * d >= 4 * k * m * r + r * r
       ELSE 4 * k * k * d > 4 * k * m * r + r * r

\* sqrt(a) - p < sqrt(b) - q, for naturals a, b, p, q.
LessAdjusted(a, p, b, q) ==
    IF p = q THEN a < b
    ELSE IF p > q
    THEN a - b - (p - q) * (p - q) < 0
         \/ SquareBelow(a - b - (p - q) * (p - q), p - q, b, FALSE)
    ELSE b - a - (q - p) * (q - p) > 0
         /\ ~SquareBelow(b - a - (q - p) * (q - p), q - p, a, TRUE)

\* Twice type_match_bonus * 50, type_match_bonus being 0.5 or 0.0.
type_match_bonus2(block, example_value) ==
    IF is_numeric(block.text) = is_numeric(example_value) THEN 50 ELSE 0

\* The square of twice the Euclidean distance of a block from a template.
Dist2Sq(block, template) ==
    Dist(cx2(block.bbox), cx2(template.bbox)) * Dist(cx2(block.bbox), cx2(template.bbox))
    + Dist(cy2(block.bbox), cy2(template.bbox)) * Dist(cy2(block.bbox), cy2(template.bbox))

\* Lines 2101-2120: the indexes of the blocks within 200 units of the
\* template's centre in both axes.
candidates(text_blocks, template) ==
    {i \in 1..Len(text_blocks) :
        /\ Dist(cy2(text_blocks[i].bbox), cy2(template.bbox)) < 400
        /\ Dist(cx2(text_blocks[i].bbox), cx2(template.bbox)) < 400}

\* Lines 2166-2167: the first candidate of the least distance (the sort is
\* stable).
best_candidate(text_blocks, template) ==
    LET cs == candidates(text_blocks, template)
        less(i, j) == LessAdjusted(Dist2Sq(text_blocks[i], template),
                                   type_match_bonus2(text_blocks[i], template.value),
                                   Dist2Sq(text_blocks[j], template),
                                   type_match_bonus2(text_blocks[j], template.value))
    IN SetMin({i \in cs : \A j \in cs : ~less(j, i)})

\* Strategy 2 is tried for a template: no candidate, a model, another page.
asks_model(req, template) ==
    candidates(req.text_blocks, template) = {} /\ req.doc_qa /\ ~req.same_page

\* Lines 2135-2158: the field of the model's answer, at the first block
\* whose text contains the answer or is contained in it.
qa_field(req, template) ==
    LET reply == req.reply
        hit == {i \in 1..Len(req.text_blocks) :
                   \/ IsSubstr(LowerText(reply.answer), LowerText(req.text_blocks[i].text))
                   \/ IsSubstr(LowerText(req.text_blocks[i].text), LowerText(reply.answer))}
    IN IF reply.raises \/ reply.answer = <<>> \/ reply.answer = <<"N", "o", "n", "e">>
          \/ reply.score <= 30 \/ hit = {}
       THEN <<>>
       ELSE <<[field_name |-> template.field_name,
               value |-> reply.answer,
               bbox |-> req.text_blocks[SetMin(hit)].bbox,
               confidence |-> <<reply.score, 100>>,
               source |-> "layoutlm_qa",
               column_header |-> {}]>>

\* Lines 2089-2177: the fields of the templates from t on.
RECURSIVE ScatteredFields(_, _)
ScatteredFields(req, t) ==
    IF t > Len(req.template_fields) THEN <<>>
    ELSE LET template == req.template_fields[t]
             blocks == req.text_blocks
         IN (IF asks_model(req, template) THEN qa_field(req, template) ELSE <<>>)
            \o (IF candidates(blocks, template) # {}
                THEN LET best == blocks[best_candidate(blocks, template)]
                     IN <<[field_name |-> template.field_name,
                           value |-> best.text,
                           bbox |-> best.bbox,
                           confidence |-> <<best.conf, 100>>,
                           source |-> "template_match",
                           column_header |-> {}]>>
                ELSE <<>>)
            \o ScatteredFields(req, t + 1)

\* The questions put to the model in the scattered branch.
RECURSIVE ScatteredQuestions(_, _)
ScatteredQuestions(req, t) ==
    IF t > Len(req.template_fields) THEN <<>>
    ELSE (IF asks_model(req, req.template_fields[t])
          THEN <<req.template_fields[t].field_name>> ELSE <<>>)
         \o ScatteredQuestions(req, t + 1)

HeaderQuestion == <<"h", "e", "a", "d", "e", "r", "s">>

\* Line 1812: the column branch is taken.
column_mode(req) ==
    req.same_page /\ req.suggest_columns /\ is_column_pattern(req.template_fields)

\* The response of lines 1776-2206 to a request with template fields:
\* columns is assigned in the column branch only, so reading len(columns)
\* at line 2192 raises NameError when the other branch was taken, and the
\* outer except answers 500.  header_candidates is the list the selection
\* of lines 1991-2011 iterates; asked are the questions put to the model.
TransferResponse(req) ==
    LET tf == req.template_fields
        headers == potential_headers(req.text_blocks, tf)
        columns == GroupColumns(req.text_blocks, tf, <<>>)
        ask == use_layoutlm(req, headers, columns)
    IN IF column_mode(req)
       THEN [done |-> TRUE, code |-> 200, status |-> "success",
             fields |-> ColumnFields(columns, headers, tf, 1),
             mode |-> "column_detection",
             columns_detected |-> Len(columns),
             branch |-> "column",
             asked |-> IF ask THEN <<HeaderQuestion>> ELSE <<>>,
             layoutlm_headers |-> IF ask THEN layoutlm_headers(req.reply) ELSE <<>>,
             header_candidates |-> [h \in 1..Len(headers) |-> headers[h].text]]
       ELSE IF req.same_page /\ req.suggest_columns
       THEN [done |-> TRUE, code |-> 500, status |-> "error",
             fields |-> <<>>, mode |-> None, columns_detected |-> 0,
             branch |-> "scattered",
             asked |-> ScatteredQuestions(req, 1),
             layoutlm_headers |-> <<>>, header_candidates |-> <<>>]
       ELSE [done |-> TRUE, code |-> 200, status |-> "success",
             fields |-> ScatteredFields(req, 1),
             mode |-> "template_application",
             columns_detected |-> 0,
             branch |-> "scattered",
             asked |-> ScatteredQuestions(req, 1),
             layoutlm_headers |-> <<>>, header_candidates |-> <<>>]

\* The engine stage of apply_template_intelligent for one request.
TransferFields ==
    /\ ~tplResp.done
    /\ tplResp' = TransferResponse(tplReq)
    /\ UNCHANGED <<tplReq, simVars, patternVars, lineVars>>
    /\ UNCHANGED <<normVars, matchVars, fuzzyVars, qaVars, inputVars>>
    /\ UNCHANGED <<storeVars, raceVars, transferVars, batchVars, bboxVars>>

\* The texts of the scenes.
TxtWeight == <<"W", "e", "i", "g", "h", "t">>
TxtNo == <<"N", "o", ".">>
TxtQty == <<"Q", "t", "y">>
TxtAbc == <<"a", "b", "c">>
TxtInc == <<"I", "n", "c">>
Txt77 == <<"7", "7">>
Txt125 == <<"1", "2", ".", "5">>
Txt7 == <<"7">>
Txt127 == <<"1", "2", "7">>
TxtX9 == <<"x", "9">>

Block(text, x1, y1, x2, y2, conf) ==
    [text |-> text, bbox |-> <<x1, y1, x2, y2>>, conf |-> conf]

\* The OCR blocks of the page, in reading order: two adjacent headers near
\* the templates' X, a header further left, two rows of a column left of the
\* templates, a column with no header in range, the templates' own column,
\* two blocks near a scattered template, and a far block.
BlockPool ==
    <<Block(TxtQty, 310, 40, 350, 60, 80),
      Block(TxtWeight, 460, 40, 500, 60, 95),
      Block(TxtNo, 505, 40, 525, 60, 70),
      Block(TxtAbc, 200, 100, 240, 120, 60),
      Block(Txt125, 400, 90, 440, 110, 90),
      Block(Txt127, 480, 90, 520, 110, 85),
      Block(Txt7, 400, 190, 440, 210, 75),
      Block(Txt77, 195, 390, 225, 410, 65),
      Block(TxtInc, 230, 390, 270, 410, 55),
      Block(TxtX9, 780, 690, 820, 710, 50)>>

\* The block lists: the sub-lists of the pool with at most MaxBlocks blocks.
RECURSIVE SubList(_, _)
SubList(pool, I) ==
    IF pool = <<>> THEN <<>>
    ELSE (IF Len(pool) \in I THEN SubList(SubSeq(pool, 1, Len(pool) - 1), I) \o <<pool[Len(pool)]>>
          ELSE SubList(SubSeq(pool, 1, Len(pool) - 1), I))

BlockLists ==
    {SubList(BlockPool, I) : I \in {J \in SUBSET (1..Len(BlockPool)) : Cardinality(J) <= MaxBlocks}}

Template(name, value, x1, y1, x2, y2) ==
    [field_name |-> name, value |-> value, bbox |-> <<x1, y1, x2, y2>>]

\* The template examples: three rows of one column at x = 500, one example,
\* two examples 99.5 and 100 units apart in X, and two scattered examples.
TemplateSets ==
    {<<Template(TxtQty, Txt127, 480, 90, 520, 110),
       Template(TxtQty, Txt7, 480, 190, 520, 210),
       Template(TxtQty, Txt7, 480, 290, 520, 310)>>,
     <<Template(TxtQty, Txt127, 480, 90, 520, 110)>>,
     <<Template(TxtQty, Txt127, 480, 90, 520, 110),
       Template(TxtWeight, Txt7, 579, 190, 620, 210)>>,
     <<Template(TxtQty, Txt127, 480, 90, 520, 110),
       Template(TxtWeight, Txt7, 580, 190, 620, 210)>>,
     <<Template(TxtInc, TxtAbc, 180, 390, 220, 410),
       Template(TxtQty, Txt7, 680, 390, 720, 410)>>}

\* What the Q&A model does with a question: it raises, or it answers with a
\* score in percent.
Replies ==
    {[raises |-> TRUE, answer |-> <<>>, score |-> 0],
     [raises |-> FALSE, answer |-> <<"N", "e", "t", ",", "a", "b", "c">>, score |-> 90],
     [raises |-> FALSE, answer |-> TxtAbc, score |-> 30]}

\* The requests that reach the template analysis.
TransferRequests ==
    [same_page : BOOLEAN, suggest_columns : BOOLEAN, use_ai_fallback : BOOLEAN,
     doc_qa : BOOLEAN, template_fields : TemplateSets, text_blocks : BlockLists,
     reply : Replies]

(***************************************************************************)
(* Regex-pattern mode: extract_invoice_fields_ocr_only.  A pattern is a    *)
(* tree of records; it is run by backtracking in Python's order (the       *)
(* alternatives left to right, the greedy repetitions longest first) and   *)
(* gives the matches at one start position in the order re would find      *)
(* them.  Every pattern is compiled with re.IGNORECASE: the patterns are   *)
(* written in lower case and the text is lower-cased character by          *)
(* character when it is compared.                                          *)
(***************************************************************************)

\* Bound of the pattern model: the number of OCR words of the page.
MaxPatWords == 3

\* The repetition count that stands for "no upper limit": above every text
\* length of the model.
Unbounded == 99

LetterSet == {LowerLetters[i] : i \in 1..26}
DigitSet == {DigitChars[i] : i \in 1..10}
\* \s: the space and the newline.
SpaceSet == {" ", "\n"}
\* \w
IsWordChar(c) == LowerCase(c) \in LetterSet \cup DigitSet \cup {"_"}

Set(chars) == [t |-> "set", chars |-> chars]
Cat(parts) == [t |-> "cat", parts |-> parts]
Alt(parts) == [t |-> "alt", parts |-> parts]
Rep(body, lo, hi) == [t |-> "rep", body |-> body, lo |-> lo, hi |-> hi]
Grp(body) == [t |-> "grp", body |-> body]
Opt(body) == Rep(body, 0, 1)
Lit(str) == Cat([i \in 1..Len(str) |-> Set({str[i]})])
WordB == [t |-> "wordb"]
Bol == [t |-> "bol"]

\* \b at position pos: exactly one of the characters around it is a word
\* character.
AtWordBoundary(s, pos) ==
    (pos > 1 /\ IsWordChar(s[pos - 1])) # (pos <= Len(s) /\ IsWordChar(s[pos]))

\* Run(re, s, st): the states [pos, cap] the pattern can end in when started
\* in st, in backtracking order; cap is the span of group 1.
RECURSIVE Run(_, _, _)
RECURSIVE RunAll(_, _, _)
RECURSIVE RunCat(_, _, _)
RECURSIVE RunAlt(_, _, _)
RECURSIVE RunRep(_, _, _, _)
RECURSIVE RunRepAll(_, _, _, _)

Run(re, s, st) ==
    CASE re.t = "set" ->
            IF st.pos <= Len(s) /\ LowerCase(s[st.pos]) \in re.chars
            THEN <<[st EXCEPT !.pos = @ + 1]>> ELSE <<>>
      [] re.t = "cat" -> RunCat(re.parts, s, <<st>>)
      [] re.t = "alt" -> RunAlt(re.parts, s, st)
      [] re.t = "rep" -> RunRep(re, s, st, 0)
      [] re.t = "grp" ->
            LET rs == Run(re.body, s, st)
            IN [i \in 1..Len(rs) |-> [pos |-> rs[i].pos, cap |-> <<st.pos, rs[i].pos>>]]
      [] re.t = "wordb" -> IF AtWordBoundary(s, st.pos) THEN <<st>> ELSE <<>>
      [] re.t = "bol" -> IF st.pos = 1 THEN <<st>> ELSE <<>>

RunAll(re, s, sts) ==
    IF sts = <<>> THEN <<>> ELSE Run(re, s, Head(sts)) \o RunAll(re, s, Tail(sts))

RunCat(parts, s, sts) ==
    IF parts = <<>> \/ sts = <<>> THEN sts
    ELSE RunCat(Tail(parts), s, RunAll(Head(parts), s, sts))

RunAlt(parts, s, st) ==
    IF parts = <<>> THEN <<>> ELSE Run(Head(parts), s, st) \o RunAlt(Tail(parts), s, st)

RunRep(re, s, st, n) ==
    (IF n < re.hi THEN RunRepAll(re, s, Run(re.body, s, st), n + 1) ELSE <<>>)
        \o (IF n >= re.lo THEN <<st>> ELSE <<>>)

RunRepAll(re, s, sts, n) ==
    IF sts = <<>> THEN <<>>
    ELSE RunRep(re, s, Head(sts), n) \o RunRepAll(re, s, Tail(sts), n)

\* re.search(pattern, s, re.IGNORECASE): the leftmost match, as the set of
\* its group 1, empty when the pattern matches nowhere.  The first match of
\* re.finditer is the same match.
re_search(re, s) ==
    LET from(i) == Run(re, s, [pos |-> i, cap |-> <<>>])
        starts == {i \in 1..(Len(s) + 1) : from(i) # <<>>}
    IN IF starts = {} THEN {}
       ELSE LET m == Head(from(SetMin(starts)))
            IN {SubSeq(s, m.cap[1], m.cap[2] - 1)}

\* Lines 207-211.
inv_patterns ==
    <<Cat(<<Opt(Cat(<<Lit(<<"i", "n", "v", "o", "i", "c", "e">>), Rep(Set(SpaceSet), 0, Unbounded),
                      Opt(Alt(<<Cat(<<Lit(<<"n", "o">>), Opt(Set({"."}))>>),
                                Lit(<<"n", "u", "m", "b", "e", "r">>), Set({"#"})>>)),
                      Rep(Set({":"} \cup SpaceSet), 0, Unbounded)>>)),
            Grp(Cat(<<Rep(Set(LetterSet), 2, 4), Opt(Set({"-"} \cup SpaceSet)),
                      Rep(Set(DigitSet), 4, Unbounded)>>))>>),
      Cat(<<Lit(<<"i", "n", "v">>), Opt(Set({"-"} \cup SpaceSet)),
            Grp(Rep(Set(DigitSet), 4, Unbounded))>>),
      Cat(<<Set({"#"}), Rep(Set(SpaceSet), 0, Unbounded),
            Grp(Rep(Set(LetterSet \cup DigitSet \cup {"-"}), 5, Unbounded))>>)>>

DateSep == Set({"-", "/", "."})

Months ==
    Alt(<<Lit(<<"j", "a", "n">>),
          Lit(<<"f", "e", "b">>),
          Lit(<<"m", "a", "r">>),
          Lit(<<"a", "p", "r">>),
          Lit(<<"m", "a", "y">>),
          Lit(<<"j", "u", "n">>),
          Lit(<<"j", "u", "l">>),
          Lit(<<"a", "u", "g">>),
          Lit(<<"s", "e", "p">>),
          Lit(<<"o", "c", "t">>),
          Lit(<<"n", "o", "v">>),
          Lit(<<"d", "e", "c">>)>>)

\* Lines 239-243.
date_patterns ==
    <<Cat(<<WordB, Grp(Cat(<<Rep(Set(DigitSet), 1, 2), DateSep, Rep(Set(DigitSet), 1, 2),
                             DateSep, Rep(Set(DigitSet), 2, 4)>>)), WordB>>),
      Cat(<<WordB, Grp(Cat(<<Rep(Set(DigitSet), 4, 4), DateSep, Rep(Set(DigitSet), 1, 2),
                             DateSep, Rep(Set(DigitSet), 1, 2)>>)), WordB>>),
      Cat(<<WordB, Grp(Cat(<<Rep(Set(DigitSet), 1, 2), Rep(Set(SpaceSet), 1, Unbounded),
                             Months, Rep(Set(LetterSet), 0, Unbounded),
                             Rep(Set(SpaceSet), 1, Unbounded),
                             Rep(Set(DigitSet), 2, 4)>>)), WordB>>)>>

Currency == Alt(<<Lit(<<"u", "s", "d">>), Lit(<<"e", "u", "r">>), Lit(<<"g", "b", "p">>)>>)

\* Lines 272-276; the text has one line, so ^ matches at its start only.
total_patterns ==
    <<Cat(<<Alt(<<Lit(<<"t", "o", "t", "a", "l">>),
                  Cat(<<Lit(<<"a", "m", "o", "u", "n", "t">>), Rep(Set(SpaceSet), 1, Unbounded), Lit(<<"d", "u", "e">>)>>),
                  Cat(<<Lit(<<"g", "r", "a", "n", "d">>), Rep(Set(SpaceSet), 1, Unbounded), Lit(<<"t", "o", "t", "a", "l">>)>>),
                  Cat(<<Lit(<<"i", "n", "v", "o", "i", "c", "e">>), Rep(Set(SpaceSet), 1, Unbounded), Lit(<<"t", "o", "t", "a", "l">>)>>)>>),
            Rep(Set({":"} \cup SpaceSet), 0, Unbounded), Opt(Set({"$"})),
            Rep(Set(SpaceSet), 0, Unbounded),
            Grp(Cat(<<Rep(Set(DigitSet \cup {","}), 1, Unbounded), Opt(Set({"."})),
                      Rep(Set(DigitSet), 0, 2)>>))>>),
      Cat(<<Set({"$"}), Rep(Set(SpaceSet), 0, Unbounded),
            Grp(Cat(<<Rep(Set(DigitSet \cup {","}), 1, Unbounded), Set({"."}),
                      Rep(Set(DigitSet), 2, 2)>>)),
            Rep(Set(SpaceSet), 0, Unbounded), Opt(Currency)>>),
      Cat(<<Alt(<<Bol, Set(SpaceSet)>>),
            Grp(Cat(<<Rep(Set(DigitSet), 1, 3),
                      Rep(Cat(<<Set({","}), Rep(Set(DigitSet), 3, 3)>>), 0, Unbounded),
                      Set({"."}), Rep(Set(DigitSet), 2, 2)>>)),
            Rep(Set(SpaceSet), 0, Unbounded), Currency>>)>>

Kinds == {"invoice_number", "invoice_date", "total_amount"}

PatternsOf(kind) ==
    CASE kind = "invoice_number" -> inv_patterns
      [] kind = "invoice_date" -> date_patterns
      [] kind = "total_amount" -> total_patterns

\* The tests of lines 220-223, 251-254 and 284-287: the word supports the
\* captured group.
Supports(kind, group, text) ==
    CASE kind = "invoice_number" ->
            \/ IsSubstr(LowerText(Strip(group)), LowerText(text))
            \/ IsSubstr(LowerText(text), LowerText(Strip(group)))
      [] kind = "invoice_date" ->
            LET parts == Split(ReplaceAll(ReplaceAll(group, "-", <<" ">>), "/", <<" ">>))
            IN \E i \in 1..Len(parts) : IsSubstr(parts[i], text)
      [] kind = "total_amount" ->
            \/ IsSubstr(ReplaceAll(group, ",", <<>>), ReplaceAll(text, ",", <<>>))
            \/ IsSubstr(ReplaceAll(text, ",", <<>>), ReplaceAll(group, ",", <<>>))

\* The value of the emitted field: lines 216, 247 and 292.
FieldValue(kind, group) ==
    CASE kind = "invoice_number" -> Strip(group)
      [] kind = "invoice_date" -> group
      [] kind = "total_amount" -> <<"$">> \o group

\* The loop over the patterns goes on after a match only while no field was
\* emitted.
ends_after_match_if_found(kind, found) == found

\* The loop over the patterns of a kind ends after a match: always for the
\* invoice number and the total (the break of lines 236 and 300), and for
\* the date once a date field is in fields (lines 268-269).
ends_after_match(kind, found) == IF kind = "invoice_date" THEN found ELSE TRUE

\* The loop over the patterns of a kind, from pattern p on: the patterns it
\* searched and the field it emitted, if any (without its id).
RECURSIVE PatternLoop(_, _, _, _)
PatternLoop(kind, full_text, words, p) ==
    IF p > Len(PatternsOf(kind)) THEN [tried |-> <<>>, field |-> {}]
    ELSE LET m == re_search(PatternsOf(kind)[p], full_text)
             rest == PatternLoop(kind, full_text, words, p + 1)
         IN IF m = {} THEN [tried |-> <<p>> \o rest.tried, field |-> rest.field]
            ELSE LET group == CHOOSE g \in m : TRUE
                     sup == {i \in 1..Len(words) : Supports(kind, group, words[i].text)}
                 IN IF ends_after_match(kind, sup # {})
                    THEN [tried |-> <<p>>,
                          field |-> IF sup = {} THEN {}
                                    ELSE {[label |-> kind,
                                           value |-> FieldValue(kind, group),
                                           bbox |-> words[SetMin(sup)].bbox,
                                           confidence |-> words[SetMin(sup)].confidence,
                                           source |-> "ocr_pattern"]}]
                    ELSE [tried |-> <<p>> \o rest.tried, field |-> rest.field]

\* fields with the ids 1, 2, ... in the order invoice number, date, total.
RECURSIVE Numbered(_, _)
Numbered(found, field_id) ==
    IF found = <<>> THEN <<>>
    ELSE IF Head(found) = {} THEN Numbered(Tail(found), field_id)
    ELSE <<[id |-> field_id] @@ (CHOOSE f \in Head(found) : TRUE)>>
            \o Numbered(Tail(found), field_id + 1)

\* extract_invoice_fields_ocr_only(ocr_words), with the patterns it searched
\* per kind.
extract_invoice_fields_ocr_only(words) ==
    IF words = <<>>
    THEN [done |-> TRUE, fields |-> <<>>, tried |-> [k \in Kinds |-> <<>>]]
    ELSE LET full_text == Join([i \in 1..Len(words) |-> words[i].text])
             loop(kind) == PatternLoop(kind, full_text, words, 1)
         IN [done |-> TRUE,
             fields |-> Numbered(<<loop("invoice_number").field,
                                   loop("invoice_date").field,
                                   loop("total_amount").field>>, 1),
             tried |-> [k \in Kinds |-> loop(k).tried]]

\* One call of the regex-pattern mode.
ExtractPatterns ==
    /\ ~patResp.done
    /\ patResp' = extract_invoice_fields_ocr_only(patWords)
    /\ UNCHANGED <<patWords, simVars, engineVars, lineVars>>
    /\ UNCHANGED <<normVars, matchVars, fuzzyVars, qaVars, inputVars>>
    /\ UNCHANGED <<storeVars, raceVars, transferVars, batchVars, bboxVars>>

\* The texts the OCR words of the page are drawn from.
PatTexts ==
    {<<"X", "X", "X", "X", "A", "B">>,
     <<"1", "2", "3", "4", "x">>,
     <<"#", "A", "B", "C", "D", "E">>,
     <<"1", "/", "2", "/", "2", "4">>,
     <<"2", "0", "2", "4", "-", "1", "-", "2">>,
     <<"T", "o", "t", "a", "l">>,
     <<"1", "2", ".", "5", "0">>}

\* The OCR word lists: word i has its own box and confidence.
PatWordLists ==
    {[i \in 1..Len(texts) |->
         [text |-> texts[i], bbox |-> <<10 * i, 5, 10 * i + 8, 15>>,
          confidence |-> 100 - 10 * i]] : texts \in SeqsUpTo(PatTexts, MaxPatWords)}

(***************************************************************************)
(* The document-processing handler of process_document/app.py:             *)
(* extract_invoice_fields with its fallback _simulate_layoutml_inference,  *)
(* and the response lambda_handler builds.  The OCR result of the document *)
(* is given: its lines, joined by newlines into the text, and one ocr_data *)
(* item per line.  Confidences are in hundredths.                          *)
(***************************************************************************)

\* Bound of the handler model: the number of OCR lines of the document.
MaxSimLines == 1

DateValue ==
    Alt(<<Cat(<<Rep(Set(LetterSet), 1, Unbounded), Rep(Set(SpaceSet), 1, Unbounded), Rep(Set(DigitSet), 1, 2),
                Opt(Set({","})), Rep(Set(SpaceSet), 1, Unbounded), Rep(Set(DigitSet), 4, 4)>>),
          Cat(<<Rep(Set(DigitSet), 1, 2), Set({"/", "-"}), Rep(Set(DigitSet), 1, 2),
                Set({"/", "-"}), Rep(Set(DigitSet), 2, 4)>>)>>)

AmountValue ==
    Cat(<<Rep(Set(DigitSet \cup {","}), 1, Unbounded), Opt(Set({"."})),
          Rep(Set(DigitSet), 0, 2)>>)

\* \s*[:.]?\s*
Colon == Cat(<<Rep(Set(SpaceSet), 0, Unbounded), Opt(Set({":", "."})), Rep(Set(SpaceSet), 0, Unbounded)>>)
\* \s*[:.]?\s*\$?\s*
ColonDollar == Cat(<<Colon, Opt(Set({"$"})), Rep(Set(SpaceSet), 0, Unbounded)>>)

\* The patterns dict of lines 101-108, in insertion order.
patterns ==
    <<[field_name |-> "invoice_number",
       pattern |-> Cat(<<Lit(<<"i", "n", "v", "o", "i", "c", "e">>), Rep(Set(SpaceSet), 0, Unbounded),
                         Alt(<<Lit(<<"n", "u", "m", "b", "e", "r">>), Set({"#"}),
                               Cat(<<Lit(<<"n", "o">>), Opt(Set({"."}))>>)>>),
                         Rep(Set(SpaceSet), 0, Unbounded), Opt(Set({":", "#"})), Rep(Set(SpaceSet), 0, Unbounded),
                         Grp(Rep(Set(LetterSet \cup DigitSet \cup {"-"}), 1, Unbounded))>>)],
      [field_name |-> "invoice_date",
       pattern |-> Cat(<<Alt(<<Lit(<<"d", "a", "t", "e">>),
                               Cat(<<Lit(<<"i", "n", "v", "o", "i", "c", "e">>), Rep(Set(SpaceSet), 0, Unbounded), Lit(<<"d", "a", "t", "e">>)>>)>>),
                         Colon, Grp(DateValue)>>)],
      [field_name |-> "due_date",
       pattern |-> Cat(<<Alt(<<Cat(<<Lit(<<"d", "u", "e">>), Rep(Set(SpaceSet), 0, Unbounded), Lit(<<"d", "a", "t", "e">>)>>),
                               Cat(<<Lit(<<"p", "a", "y", "m", "e", "n", "t">>), Rep(Set(SpaceSet), 0, Unbounded), Lit(<<"d", "u", "e">>)>>)>>),
                         Colon, Grp(DateValue)>>)],
      [field_name |-> "total",
       pattern |-> Cat(<<Alt(<<Lit(<<"t", "o", "t", "a", "l">>),
                               Cat(<<Lit(<<"a", "m", "o", "u", "n", "t">>), Rep(Set(SpaceSet), 0, Unbounded), Lit(<<"d", "u", "e">>)>>)>>),
                         ColonDollar, Grp(AmountValue)>>)],
      [field_name |-> "subtotal",
       pattern |-> Cat(<<Alt(<<Lit(<<"s", "u", "b", "t", "o", "t", "a", "l">>),
                               Cat(<<Lit(<<"s", "u", "b">>), Rep(Set(SpaceSet), 0, Unbounded), Lit(<<"t", "o", "t", "a", "l">>)>>)>>),
                         ColonDollar, Grp(AmountValue)>>)],
      [field_name |-> "tax",
       pattern |-> Cat(<<Alt(<<Lit(<<"t", "a", "x">>), Lit(<<"v", "a", "t">>)>>), Rep(Set(SpaceSet), 0, Unbounded),
                         Opt(Cat(<<Set({"("}), Rep(Set(DigitSet \cup {"."}), 1, Unbounded),
                                   Set({"%"}), Set({")"})>>)),
                         ColonDollar, Grp(AmountValue)>>)]>>

\* Lines 111-147: the fields of the patterns from p on that match the text.
RECURSIVE PatternFields(_, _, _)
PatternFields(text, ocr_data, p) ==
    IF p > Len(patterns) THEN <<>>
    ELSE LET m == re_search(patterns[p].pattern, text)
             value == Strip(CHOOSE g \in m : TRUE)
             hits == {i \in 1..Len(ocr_data) :
                         IsSubstr(LowerText(value), LowerText(ocr_data[i].text))}
         IN (IF m = {} THEN <<>>
             ELSE <<[field_name |-> patterns[p].field_name,
                     value |-> value,
                     confidence |-> IF hits = {} THEN 85
                                    ELSE ocr_data[SetMin(hits)].confidence,
                     bbox |-> IF hits = {} THEN DefaultRegexBox
                              ELSE NormalizeA4(ocr_data[SetMin(hits)].bbox),
                     page |-> 1]>>)
            \o PatternFields(text, ocr_data, p + 1)

\* The static fields of lines 207-264.
StaticFields ==
    <<[field_name |-> "invoice_number",
       value |-> <<"I", "N", "V", "-", "2", "0", "2", "5", "-", "0", "0", "1">>,
       confidence |-> 95, bbox |-> <<150, 80, 400, 120>>, page |-> 1],
      [field_name |-> "invoice_date",
       value |-> <<"O", "c", "t", "o", "b", "e", "r", " ", "2", "6", ",", " ", "2", "0", "2", "5">>,
       confidence |-> 92, bbox |-> <<150, 140, 380, 180>>, page |-> 1],
      [field_name |-> "bill_to_name",
       value |-> <<"J", "o", "h", "n", " ", "D", "o", "e">>,
       confidence |-> 89, bbox |-> <<150, 240, 300, 275>>, page |-> 1],
      [field_name |-> "bill_to_address",
       value |-> <<"1", "2", "3", " ", "M", "a", "i", "n", " ", "S", "t", "r", "e", "e", "t", ",", " ", "S", "a", "n", " ", "F", "r", "a", "n", "c", "i", "s", "c", "o", ",", " ", "C", "A", " ", "9", "4", "1", "0", "2">>,
       confidence |-> 88, bbox |-> <<150, 280, 450, 340>>, page |-> 1],
      [field_name |-> "subtotal",
       value |-> <<"$", "4", ",", "0", "0", "0", ".", "0", "0">>,
       confidence |-> 94, bbox |-> <<600, 600, 750, 635>>, page |-> 1],
      [field_name |-> "tax",
       value |-> <<"$", "4", "0", "0", ".", "0", "0">>,
       confidence |-> 93, bbox |-> <<600, 640, 750, 675>>, page |-> 1],
      [field_name |-> "total",
       value |-> <<"$", "4", ",", "4", "0", "0", ".", "0", "0">>,
       confidence |-> 96, bbox |-> <<600, 680, 750, 720>>, page |-> 1],
      [field_name |-> "due_date",
       value |-> <<"N", "o", "v", "e", "m", "b", "e", "r", " ", "2", "5", ",", " ", "2", "0", "2", "5">>,
       confidence |-> 91, bbox |-> <<150, 800, 380, 840>>, page |-> 1]>>

\* random.uniform(-0.05, 0.05): both ends of the interval, in hundredths.
Perturbations == {0 - 5, 5}
Noises == [1..Len(StaticFields) -> Perturbations]

\* _simulate_layoutml_inference: the static fields, each confidence moved by
\* its own random draw and capped at 0.99 (line 268).
simulate_layoutml_inference(noise) ==
    [i \in 1..Len(StaticFields) |->
        [StaticFields[i] EXCEPT !.confidence = Min(99, @ + noise[i])]]

\* Line 150: the matched fields, or the simulation when no pattern matched.
FieldsOrSimulation(matched, noise) ==
    IF matched # <<>> THEN matched ELSE simulate_layoutml_inference(noise)

\* extract_invoice_fields(text, ocr_data)
extract_invoice_fields(text, ocr_data, noise) ==
    FieldsOrSimulation(PatternFields(text, ocr_data, 1), noise)

\* '\n'.join(extracted_lines)
RECURSIVE JoinLines(_)
JoinLines(lines) ==
    IF lines = <<>> THEN <<>>
    ELSE IF Len(lines) = 1 THEN lines[1]
    ELSE lines[1] \o <<"\n">> \o JoinLines(Tail(lines))

\* response_data of lines 332-343; via records which path gave the fields
\* and is not part of the response.
ResponseData(fields, via) ==
    [status |-> "success",
     fields |-> fields,
     metadata |-> [num_fields |-> Len(fields)],
     via |-> via]

\* lambda_handler once more on the same document, from the OCR result on;
\* the patterns are matched once for all draws of the simulation.
ProcessDocument ==
    LET matched == PatternFields(JoinLines(ocrText.lines), ocrText.ocr_data, 1)
        via == IF matched # <<>> THEN "patterns" ELSE "simulation"
    IN /\ Len(simRuns) < 2
       /\ \E noise \in Noises :
             simRuns' = Append(simRuns,
                               ResponseData(FieldsOrSimulation(matched, noise), via))
       /\ UNCHANGED <<ocrText, engineVars, patternVars, lineVars>>
       /\ UNCHANGED <<normVars, matchVars, fuzzyVars, qaVars, inputVars>>
       /\ UNCHANGED <<storeVars, raceVars, transferVars, batchVars, bboxVars>>

\* The OCR lines of the documents.
SimLines ==
    {<<"h", "e", "l", "l", "o">>,
     <<"T", "o", "t", "a", "l", ":", " ", "1", "2", ".", "5", "0">>,
     <<"I", "n", "v", "o", "i", "c", "e", " ", "N", "o", " ", "7">>,
     <<"D", "a", "t", "e", ":", " ", "1", "/", "2", "/", "2", "4">>}

\* The OCR results: line i with its polygon and confidence.
OcrResults ==
    {[lines |-> ls,
      ocr_data |-> [i \in 1..Len(ls) |->
                       [text |-> ls[i],
                        bbox |-> Polygon(<<50, 40 * i, 250, 40 * i + 20>>),
                        confidence |-> 100 - 10 * i]]] :
        ls \in SeqsUpTo(SimLines, MaxSimLines)}

(***************************************************************************)
(* The specifications.                                                     *)
(***************************************************************************)

InitStore == IdleStore /\ IdleRace /\ IdleTransfer /\ IdleBatch /\ IdleBbox /\ IdleExtraction

NextStore ==
    \/ \E raw \in VendorNames, payload \in Payloads : save_vendor_template(raw, payload)
    \/ \E raw \in VendorNames : load_vendor_template(raw)
    \/ list_vendor_templates
    \/ \E raw \in VendorNames : delete_vendor_template(raw)

SpecStore == InitStore /\ [][NextStore]_vars

InitRace ==
    /\ IdleStore /\ IdleTransfer /\ IdleBatch /\ IdleBbox /\ IdleExtraction
    /\ rfile = <<>>
    /\ \E l1 \in 1..MaxDocLen, l2 \in 1..MaxDocLen :
          writers = <<[pc |-> "start", pos |-> 0, len |-> l1],
                      [pc |-> "start", pos |-> 0, len |-> l2]>>

NextRace == \E w \in Writers : SaveOpen(w) \/ SaveWrite(w) \/ SaveClose(w)

SpecRace == InitRace /\ [][NextRace]_vars

InitTransfer ==
    /\ IdleStore /\ IdleRace /\ IdleBatch /\ IdleBbox /\ IdleExtraction
    /\ modelLoaded = FALSE
    /\ pdfFile = Absent
    /\ pngFile = Absent
    /\ \E f1 \in Formats, f2 \in Formats :
          reqs = <<[pc |-> "start", format |-> f1, image |-> None, result |-> None,
                    tmp_path |-> FALSE, image_path |-> FALSE],
                   [pc |-> "start", format |-> f2, image |-> None, result |-> None,
                    tmp_path |-> FALSE, image_path |-> FALSE]>>

NextTransfer ==
    \E r \in Threads :
        \/ T_LoadModel(r)
        \/ T_OpenPdf(r)
        \/ T_WritePdf(r)
        \/ T_Convert(r)
        \/ T_OpenImage(r)
        \/ T_SavePng(r)
        \/ T_Extract(r)
        \/ T_CheckPdf(r)
        \/ T_UnlinkPdf(r)
        \/ T_CheckPng(r)
        \/ T_UnlinkPng(r)

SpecTransfer == InitTransfer /\ [][NextTransfer]_vars

InitBatch ==
    /\ IdleStore /\ IdleRace /\ IdleTransfer /\ IdleBbox /\ IdleExtraction
    /\ custom_fields \in FieldRequestLists
    /\ batch_size \in BatchSizes
    /\ batchResp = NoResp
    /\ trav = NoTrav

NextBatch ==
    \/ \E bi \in BatchIndexes, outcome \in Outcomes : ExtractBatch(bi, outcome)
    \/ \E outcome \in Outcomes : ResumeBatch(outcome)

SpecBatch == InitBatch /\ [][NextBatch]_vars

InitBbox ==
    /\ IdleStore /\ IdleRace /\ IdleTransfer /\ IdleBatch /\ IdleExtraction
    /\ img \in Images
    /\ ocr_words \in SeqsUpTo(WordsOf(img[1], img[2]), MaxWords)
    /\ outField = NoField
    /\ rt = NoRt

NextBbox ==
    \/ \E answer \in Values, score \in Scores : DonutField(answer, score)
    \/ \E capture \in Values : RegexField(capture)

SpecBbox == InitBbox /\ [][NextBbox]_vars

InitRoundTrip ==
    /\ IdleStore /\ IdleRace /\ IdleTransfer /\ IdleBatch /\ IdleExtraction
    /\ img \in RtImages
    /\ ocr_words = <<>>
    /\ outField = NoField
    /\ \E bbox \in PixelBoxes(img[1], img[2]) :
          rt = [px |-> bbox, norm |-> SentinelBox, back |-> SentinelBox,
                done |-> FALSE]

NextRoundTrip == RoundTrip

SpecRoundTrip == InitRoundTrip /\ [][NextRoundTrip]_vars

InitNormalize ==
    /\ IdleStore /\ IdleRace /\ IdleTransfer /\ IdleBatch
    /\ IdleMatch /\ IdleFuzzy /\ IdleQA /\ IdleInput /\ IdlePipeline
    /\ img \in Images
    /\ ocr_words = <<>>
    /\ outField = NoField
    /\ rt = NoRt
    /\ rawBox \in RawBoxes(img[1], img[2])
    /\ normResp = NoNorm

NextNormalize ==
    \/ ConvertLeaf
    \/ NormalizeResponseField

SpecNormalize == InitNormalize /\ [][NextNormalize]_vars

InitMatch ==
    /\ IdleStore /\ IdleRace /\ IdleTransfer /\ IdleBatch
    /\ IdleNorm /\ IdleFuzzy /\ IdleQA /\ IdleInput /\ IdlePipeline
    /\ img = <<1000, 1000>>
    /\ \E texts \in SeqsUpTo(MatchTexts, MaxMatchWords) : ocr_words = PageWords(texts)
    /\ outField = NoField
    /\ rt = NoRt
    /\ mvalue \in MatchValues
    /\ matchResp = NoMatch

NextMatch == MatchValue

SpecMatch == InitMatch /\ [][NextMatch]_vars

InitFuzzy ==
    /\ IdleStore /\ IdleRace /\ IdleTransfer /\ IdleBatch
    /\ IdleNorm /\ IdleMatch /\ IdleQA /\ IdleInput /\ IdlePipeline
    /\ img = <<1000, 500>>
    /\ ocr_words = <<>>
    /\ outField = NoField
    /\ rt = NoRt
    /\ donutField \in DonutFields
    /\ \E n \in 0..MaxEntries :
          \E texts \in [1..n -> EntryTexts], confs \in [1..n -> {{}, {-1}, {96}}] :
             ocr_entries = Entries(texts, confs)
    /\ fuzzyResp = NoFuzzy

NextFuzzy == MatchField

SpecFuzzy == InitFuzzy /\ [][NextFuzzy]_vars

InitQA ==
    /\ IdleStore /\ IdleRace /\ IdleTransfer /\ IdleBatch
    /\ IdleNorm /\ IdleMatch /\ IdleFuzzy /\ IdleInput /\ IdlePipeline
    /\ img = <<640, 480>>
    /\ ocr_words = PageWords(<<<<"a">>, <<"b">>, <<"a">>>>)
    /\ outField = NoField
    /\ rt = NoRt
    /\ \E custom \in CustomFieldLists : questions = BuildQuestions(DefaultConfigs, custom)
    /\ \E D \in {S \in SUBSET (1..Len(questions)) : Cardinality(S) <= MaxDeviations} :
          \E d \in [D -> 1..Len(Deviations(LineTotal))] :
             oracle = OracleOf(questions, D, d)
    /\ collab \in [model : BOOLEAN, ocr : BOOLEAN]
    /\ qa = [NoQA EXCEPT !.pc = "load"]

NextQA ==
    \/ load_layoutlm_model
    \/ perform_ocr_get_words
    \/ AskQuestion
    \/ ReturnFields
    \/ extract_document

SpecQA == InitQA /\ [][NextQA]_vars

InitInput ==
    /\ IdleStore /\ IdleRace /\ IdleTransfer /\ IdleBatch /\ IdleBbox
    /\ IdleNorm /\ IdleMatch /\ IdleFuzzy /\ IdleQA /\ IdlePipeline
    /\ reqBody \in RequestBodies
    /\ inputResp = NoAnswer

NextInput ==
    \/ apply_template_intelligent
    \/ reextract_bbox

SpecInput == InitInput /\ [][NextInput]_vars

InitLines ==
    /\ IdleStore /\ IdleRace /\ IdleTransfer /\ IdleBatch /\ IdleBbox
    /\ IdleNorm /\ IdleMatch /\ IdleFuzzy /\ IdleQA /\ IdleInput
    /\ IdleSim /\ IdleEngine /\ IdlePattern
    /\ lineInput \in [words : SeqsUpTo(LineWords, MaxLineWords),
                      image_height : ImageHeights]
    /\ lineResp = NotDone

NextLines == GroupWords

SpecLines == InitLines /\ [][NextLines]_vars

InitEngine ==
    /\ IdleStore /\ IdleRace /\ IdleTransfer /\ IdleBatch /\ IdleBbox
    /\ IdleNorm /\ IdleMatch /\ IdleFuzzy /\ IdleQA /\ IdleInput
    /\ IdleSim /\ IdlePattern /\ IdleLines
    /\ tplReq \in TransferRequests
    /\ tplResp = NotDone

NextEngine == TransferFields

SpecEngine == InitEngine /\ [][NextEngine]_vars

InitPattern ==
    /\ IdleStore /\ IdleRace /\ IdleTransfer /\ IdleBatch /\ IdleBbox
    /\ IdleNorm /\ IdleMatch /\ IdleFuzzy /\ IdleQA /\ IdleInput
    /\ IdleSim /\ IdleEngine /\ IdleLines
    /\ patWords \in PatWordLists
    /\ patResp = NotDone

NextPattern == ExtractPatterns

SpecPattern == InitPattern /\ [][NextPattern]_vars

InitSimulate ==
    /\ IdleStore /\ IdleRace /\ IdleTransfer /\ IdleBatch /\ IdleBbox
    /\ IdleNorm /\ IdleMatch /\ IdleFuzzy /\ IdleQA /\ IdleInput
    /\ IdleEngine /\ IdlePattern /\ IdleLines
    /\ ocrText \in OcrResults
    /\ simRuns = <<>>

NextSimulate == ProcessDocument

SpecSimulate == InitSimulate /\ [][NextSimulate]_vars

(***************************************************************************)
(* The claims.                                                             *)
(***************************************************************************)

\* C1: a save to a vendor name whose template is already stored stores a
\* version strictly greater than the version stored before (the version
\* increments on every save).
C1_VersionIncrements ==
    [][(/\ storeResp'.op = "save"
        /\ storeResp'.code = 200
        /\ storeResp'.body \in DOMAIN files)
       => files'[storeResp'.body].version > files[storeResp'.body].version]_vars

\* C2: after a successful save under vendor name v, a load and a delete issued
\* with the same v find the template that was saved.
C2_SaveLoadRoundTrip ==
    (storeResp.op = "save" /\ storeResp.code = 200)
    => /\ Exists(storeResp.arg)
       /\ load_template(storeResp.arg) = {files[storeResp.body]}

\* C3: once two concurrent saves to one vendor name have both finished, the
\* file is exactly the complete document of one of them.
C3_LastWriterWins ==
    (\A w \in Writers : writers[w].pc = "closed")
    => \E w \in Writers : rfile = Doc(w, writers[w].len)

\* C4: each of two concurrently served template-transfer requests returns the
\* result it returns when run alone: the fields of its own document.
C4_RequestIndependence ==
    \A r \in Threads : reqs[r].pc = "done" => reqs[r].result = DocOf(r)

\* C5: the scheduler's order is a stable partition of the caller's list: the
\* same requests, every required one before every optional one, and the
\* caller's relative order kept within each group.
C5_StablePartition ==
    batchResp.status # None
    => LET s == batchResp.sorted_fields
           n == Len(custom_fields)
       IN /\ Len(s) = n
          /\ {s[i] : i \in 1..n} = {custom_fields[i] : i \in 1..n}
          /\ \A i \in 1..n : \A j \in 1..n :
                i < j => /\ s[j].required => s[i].required
                         /\ s[i].required = s[j].required => s[i].pos < s[j].pos

\* A call has been served for a list in which an optional request precedes a
\* required one and each group holds two requests.
C5_Witness ==
    /\ batchResp.status = "success"
    /\ \E i \in 1..Len(custom_fields) : \E j \in 1..Len(custom_fields) :
          i < j /\ ~custom_fields[i].required /\ custom_fields[j].required
    /\ Cardinality({i \in 1..Len(custom_fields) : custom_fields[i].required}) >= 2
    /\ Cardinality({i \in 1..Len(custom_fields) : ~custom_fields[i].required}) >= 2

\* ceil(n / d), d >= 1: the least k with k * d >= n.
CeilDiv(n, d) == CHOOSE k \in 0..n : k * d >= n /\ (k = 0 \/ (k - 1) * d < n)

\* C6: for a list of n requests, batch_size >= 1 and batch_index >= 0 the
\* returned batch state has total_batches = ceil(n / batch_size) and
\* has_more = (batch_index < total_batches - 1).
C6_BatchState ==
    (/\ batchResp.status = "success"
     /\ batchResp.batch_info.batch_size >= 1
     /\ batchResp.batch_info.batch_index >= 0)
    => LET info == batchResp.batch_info
       IN /\ info.total_fields = Len(custom_fields)
          /\ info.total_batches = CeilDiv(Len(custom_fields), info.batch_size)
          /\ info.has_more = (info.batch_index < info.total_batches - 1)

\* A batch state with has_more true for a list whose length is no multiple of
\* batch_size, and one with has_more false for the last batch.
C6_Witness ==
    /\ batchResp.status = "success"
    /\ batchResp.batch_info.batch_size >= 2
    /\ Len(custom_fields) % batchResp.batch_info.batch_size # 0
    /\ batchResp.batch_info.batch_index >= 0
    /\ batchResp.batch_info.has_more
    /\ batchResp.batch_fields # <<>>

\* C7: a batch_index outside 0..total_batches-1 (batch_size >= 1) is answered
\* with success, an empty field list and has_more = false, and no question is
\* put to the model.
C7_OutOfRangeEmpty ==
    (/\ batchResp.status # None
     /\ batch_size >= 1
     /\ \/ batchResp.submitted < 0
        \/ batchResp.submitted >= CeilDiv(Len(custom_fields), batch_size))
    => /\ batchResp.status = "success"
       /\ batchResp.fields = <<>>
       /\ batchResp.batch_info.has_more = FALSE
       /\ batchResp.asked = 0

\* C8 as claimed: the resuming client reaches has_more = false after exactly
\* total_batches calls, with next_batch_index = batch_index + 1 on the way,
\* and its slices concatenate to the required-first list, every request in
\* exactly one slice.
C8_ExactlyTotalBatchesCalls ==
    /\ trav.state = "running" => trav.next = trav.calls
    /\ trav.state = "finished"
       => /\ trav.calls = trav.total_batches
          /\ trav.slices = sorted_fields(custom_fields)
          /\ \A i \in 1..Len(custom_fields) :
                Cardinality({j \in 1..Len(trav.slices) :
                                trav.slices[j] = custom_fields[i]}) = 1

\* C8 as amended: the number of calls is total_batches for a non-empty list
\* and one (with total_batches = 0) for an empty list.
C8_ResumableTraversal ==
    /\ trav.state = "running" => trav.next = trav.calls
    /\ trav.state = "finished"
       => /\ trav.calls = (IF custom_fields = <<>> THEN 1 ELSE trav.total_batches)
          /\ custom_fields = <<>> => trav.total_batches = 0
          /\ trav.slices = sorted_fields(custom_fields)
          /\ \A i \in 1..Len(custom_fields) :
                Cardinality({j \in 1..Len(trav.slices) :
                                trav.slices[j] = custom_fields[i]}) = 1

\* A traversal of three batches, the last one short, has finished.
C8_Witness ==
    /\ trav.state = "finished"
    /\ trav.calls = 3
    /\ Len(custom_fields) % batch_size # 0
    /\ \E i \in 1..Len(custom_fields) : custom_fields[i].required
    /\ \E i \in 1..Len(custom_fields) : ~custom_fields[i].required

\* C9: every field an extraction path returns has a box with coordinates in
\* 0..1000 and x1 <= x2, y1 <= y2.
C9_BoxNormalized ==
    outField.emitted
    => /\ \A i \in 1..4 : 0 <= outField.bbox[i] /\ outField.bbox[i] <= 1000
       /\ outField.bbox[1] <= outField.bbox[3]
       /\ outField.bbox[2] <= outField.bbox[4]

Abs(x) == IF x < 0 THEN 0 - x ELSE x

\* The image dimension coordinate i of a box is scaled by.
DimOf(i) == IF i \in {1, 3} THEN img[1] ELSE img[2]

\* C10 as claimed: normalising a pixel box inside the image and converting it
\* back changes every coordinate by at most 1.
C10_WithinOne ==
    rt.done => \A i \in 1..4 : Abs(rt.back[i] - rt.px[i]) <= 1

\* C10 as amended: the converted coordinate never exceeds the original and
\* falls short of it by at most ceil(dimension / 1000), which is 1 for an
\* image dimension of at most 1000 pixels.
C10_RoundTrip ==
    rt.done
    => \A i \in 1..4 :
          /\ rt.back[i] <= rt.px[i]
          /\ rt.px[i] - rt.back[i] <= CeilDiv(DimOf(i), 1000)
          /\ DimOf(i) <= 1000 => rt.px[i] - rt.back[i] <= 1

\* A round trip on an image of at most 1000 x 1000 pixels that lost exactly
\* one pixel in some coordinate and none in another.
C10_Witness ==
    /\ rt.done
    /\ img[1] <= 1000 /\ img[2] <= 1000
    /\ \E i \in 1..4 : rt.px[i] - rt.back[i] = 1
    /\ \E i \in 1..4 : rt.px[i] > 0 /\ rt.back[i] = rt.px[i]

EqualWords == {i \in 1..Len(ocr_words) : LowerStr(ocr_words[i].text) = LowerStr(mvalue)}

\* The least element of a non-empty set of word indexes.
Least(S) == CHOOSE i \in S : \A j \in S : i <= j

\* C12: whenever some OCR word's text equals the value case-insensitively,
\* the matcher returns the box and the confidence of the first such word in
\* document order, however many other words substring-match the value.
C12_ExactFirst ==
    (matchResp.done /\ EqualWords # {})
    => /\ matchResp.bbox = ocr_words[Least(EqualWords)].bbox
       /\ matchResp.confidence = <<ocr_words[Least(EqualWords)].conf, 100>>

\* The matcher has answered for a page on which two words equal the value,
\* the first of them is not the first word of the page, and the first word
\* of the page contains the value.
C12_Witness ==
    /\ matchResp.done
    /\ Cardinality(EqualWords) >= 2
    /\ Least(EqualWords) > 1
    /\ IsSubstr(LowerStr(mvalue), LowerStr(ocr_words[1].text))
    /\ matchResp.bbox = ocr_words[Least(EqualWords)].bbox

\* The value as the matcher compares it: lower-cased and trimmed.
Trimmed == Strip(LowerStr(mvalue))

\* The space-separated tokens of the value.
Tokens == Split(Trimmed)

\* The words i .. i + k - 1 of the page, k the number of tokens.
Window(i) == i..(i + Len(Tokens) - 1)

\* The starts of the windows in which the tokens of a value of at least two
\* tokens appear as adjacent OCR words in that order.
TokenWindows ==
    {i \in 1..Len(ocr_words) :
        /\ Len(Tokens) >= 2
        /\ i + Len(Tokens) - 1 <= Len(ocr_words)
        /\ \A j \in 1..Len(Tokens) : LowerStr(ocr_words[i + j - 1].text) = Tokens[j]}

\* The words whose text is a substring of the value, or the value of it.
SubstringWords ==
    {i \in 1..Len(ocr_words) :
        \/ IsSubstr(Trimmed, LowerStr(ocr_words[i].text))
        \/ IsSubstr(LowerStr(ocr_words[i].text), Trimmed)}

\* The union of the boxes of the words with indexes in I.
UnionBox(I) ==
    <<CHOOSE x \in {ocr_words[i].bbox[1] : i \in I} :
          \A j \in I : x <= ocr_words[j].bbox[1],
      CHOOSE y \in {ocr_words[i].bbox[2] : i \in I} :
          \A j \in I : y <= ocr_words[j].bbox[2],
      CHOOSE x \in {ocr_words[i].bbox[3] : i \in I} :
          \A j \in I : x >= ocr_words[j].bbox[3],
      CHOOSE y \in {ocr_words[i].bbox[4] : i \in I} :
          \A j \in I : y >= ocr_words[j].bbox[4]>>

RECURSIVE ConfSum(_)
ConfSum(I) ==
    IF I = {} THEN 0
    ELSE LET i == Least(I) IN ocr_words[i].conf + ConfSum(I \ {i})

\* The fraction c is the mean of the confidences (in percent) of the words
\* with indexes in I.
IsMeanConf(c, I) == c[1] * 100 * Cardinality(I) = ConfSum(I) * c[2]

\* C13 as stated: when the tokens of a value of at least two tokens appear
\* as adjacent OCR words in that order, the returned box is the union of
\* exactly those adjacent words and the confidence the mean of exactly their
\* confidences, whatever other words the page contains.
C13_ExactlyAdjacentWords ==
    (matchResp.done /\ TokenWindows # {})
    => \E i \in TokenWindows :
          /\ matchResp.bbox = UnionBox(Window(i))
          /\ IsMeanConf(matchResp.confidence, Window(i))

\* C13, amended: when the tokens of a value of at least two tokens appear as
\* adjacent OCR words in that order and no word equals the whole value, the
\* returned box is the union and the confidence the mean of all the words
\* whose text is a substring of the value or contains it; the adjacent words
\* are among them, and are all of them when no other word of the page
\* substring-matches the value.
C13_MultiWord ==
    (/\ matchResp.done
     /\ TokenWindows # {}
     /\ \A i \in 1..Len(ocr_words) : LowerStr(ocr_words[i].text) # Trimmed)
    => /\ matchResp.bbox = UnionBox(SubstringWords)
       /\ IsMeanConf(matchResp.confidence, SubstringWords)
       /\ \A i \in TokenWindows : Window(i) \subseteq SubstringWords
       /\ \A i \in TokenWindows :
             SubstringWords = Window(i)
             => /\ matchResp.bbox = UnionBox(Window(i))
                /\ IsMeanConf(matchResp.confidence, Window(i))

\* The matcher has answered for a page that holds the two tokens of the
\* value as adjacent words and, outside that window, a third word that is a
\* substring of the value: the box returned reaches over the third word.
C13_Witness ==
    /\ matchResp.done
    /\ \E i \in TokenWindows :
          /\ \E j \in SubstringWords : j \notin Window(i)
          /\ matchResp.bbox = UnionBox(SubstringWords)
          /\ matchResp.bbox # UnionBox(Window(i))

\* Some window of as many words as the value has tokens (at least two) has a
\* joined text that is a substring of the value or contains it.
WindowMatches ==
    /\ Len(Tokens) >= 2
    /\ \E i \in 1..Len(ocr_words) :
          LET last == IF i + Len(Tokens) - 1 <= Len(ocr_words)
                      THEN i + Len(Tokens) - 1 ELSE Len(ocr_words)
              joined == Join([j \in 1..(last - i + 1) |->
                                 LowerStr(ocr_words[i + j - 1].text)])
          IN IsSubstr(Trimmed, joined) \/ IsSubstr(joined, Trimmed)

\* No resolution step succeeds: the value or the word list is empty, or no
\* word equals, contains or is contained in the value and no window matches.
NoStepSucceeds ==
    \/ mvalue = <<>>
    \/ ocr_words = <<>>
    \/ (SubstringWords = {} /\ ~WindowMatches)

\* C14: whenever none of the resolution steps succeeds, an empty value and an
\* empty OCR word list included, the matcher returns the sentinel box
\* [0, 0, 100, 100] with confidence 0.3.
C14_FallbackSentinel ==
    (matchResp.done /\ NoStepSucceeds)
    => /\ matchResp.bbox = SentinelBox
       /\ matchResp.confidence[1] * 10 = 3 * matchResp.confidence[2]

\* The similarity score of entry i against the trimmed, lower-cased value.
ScoreOf(i) == Ratio(LowerStr(Strip(donutField.value)), LowerStr(ocr_entries[i].text))

\* The entries no other entry outscores.
TopEntries ==
    {i \in 1..Len(ocr_entries) :
        \A j \in 1..Len(ocr_entries) :
            ScoreOf(j)[1] * ScoreOf(i)[2] <= ScoreOf(i)[1] * ScoreOf(j)[2]}

\* Entry i crosses the threshold: its score exceeds 0.45.
Crosses(i) == ScoreOf(i)[1] * 100 > 45 * ScoreOf(i)[2]

\* C15: the field's box is taken from the highest-scoring OCR entry if and
\* only if that entry's score exceeds 0.45, and then the confidence is the
\* mean of the source-model confidence and the OCR token confidence clamped
\* to [0, 1]; when no entry crosses 0.45 the result is the sentinel box with
\* confidence 0.3.
C15_SimilarityVariant ==
    fuzzyResp.done
    => /\ (fuzzyResp.matched_ocr # 0) = (\E i \in TopEntries : Crosses(i))
       /\ fuzzyResp.matched_ocr # 0
          => /\ fuzzyResp.matched_ocr \in TopEntries
             /\ \E c \in fuzzyResp.confidence : c[1] >= 0 /\ c[1] <= c[2]
       /\ (\A i \in 1..Len(ocr_entries) : ~Crosses(i))
          => /\ fuzzyResp.bbox = SentinelBox
             /\ fuzzyResp.confidence = {<<3, 10>>}

\* The model's answer an emitted field comes from: the answer of rank `row`
\* (the first for a field without a row suffix) to the question of its key.
OriginOf(f) ==
    LET o == oracle[Label(f.label.key)]
        rank == IF f.label.row = 0 THEN 1 ELSE f.label.row
    IN IF o.raises \/ rank > Len(o.result) THEN {} ELSE {o.result[rank]}

\* The answer is blank, or its score is below 0.1.
Discardable(a) == Strip(a.answer) = <<>> \/ a.score[1] * 10 < a.score[2]

\* C16: no emitted field originates from a model answer that is empty or
\* whose score is below 0.1, and each question is put to the model at most
\* once per request.
C16_AcceptThreshold ==
    /\ \A i \in 1..Len(qa.fields) :
          /\ OriginOf(qa.fields[i]) # {}
          /\ \A a \in OriginOf(qa.fields[i]) :
                ~Discardable(a) /\ qa.fields[i].value = Strip(a.answer)
    /\ \A i \in 1..Len(qa.asked) : \A j \in 1..Len(qa.asked) :
          i # j => qa.asked[i] # qa.asked[j]

\* A request is done in which one question got an answer scored below 0.1
\* and another a blank answer: neither was emitted nor asked again, and the
\* other questions gave fields.
C16_Witness ==
    /\ qa.pc = "done"
    /\ Len(qa.asked) = Len(questions)
    /\ \E i \in 1..Len(questions) : \E j \in 1..Len(questions) :
          LET oi == oracle[questions[i].label]
              oj == oracle[questions[j].label]
          IN /\ i # j
             /\ ~oi.raises /\ oi.result # <<>> /\ oi.result[1].score = <<5, 100>>
             /\ ~oj.raises /\ oj.result # <<>> /\ Strip(oj.result[1].answer) = <<>>
             /\ \A k \in 1..Len(qa.out) :
                   qa.out[k].label.key \notin {questions[i].label.key,
                                               questions[j].label.key}
    /\ Len(qa.out) >= 3

\* C17: for every line-item key and every ranked list of up to 5 answers, no
\* two fields emitted for that key carry the same answer text.
C17_NoDuplicateRows ==
    \A i \in 1..Len(qa.fields) : \A j \in 1..Len(qa.fields) :
        (/\ i # j
         /\ qa.fields[i].is_line_item
         /\ qa.fields[j].is_line_item
         /\ qa.fields[i].label.key = qa.fields[j].label.key)
        => qa.fields[i].value # qa.fields[j].value

\* The questions of the request whose model call does not raise.
Healthy == SelectSeq(questions, LAMBDA cfg : ~oracle[cfg.label].raises)

\* The fields of a run of the loop over the questions qs, from the i-th on.
RECURSIVE RunFrom(_, _, _)
RunFrom(qs, i, st) ==
    IF i > Len(qs) THEN st.fields
    ELSE RunFrom(qs, i + 1, ProcessQuestion(qs[i], oracle[qs[i].label], st, qa.words))

\* What the caller sees of a field.
Shown(f) == [label |-> f.label, value |-> f.value, bbox |-> f.bbox,
             confidence |-> f.confidence]

\* C18: if the model call raises for one question, that field is omitted and
\* every other question of the request is still asked and its field emitted
\* with the same label, value, box and confidence as in a run in which the
\* failing question is absent; the request still succeeds.
C18_FailureIsolation ==
    (/\ qa.pc = "done"
     /\ collab.model
     /\ \E i \in 1..Len(questions) : oracle[questions[i].label].raises)
    => LET alone == NormalizeAll(RunFrom(Healthy, 1, [fields |-> <<>>, field_id |-> 1]),
                                 img[1], img[2])
       IN /\ qa.status = "success"
          /\ \A i \in 1..Len(Healthy) :
                \E k \in 1..Len(qa.asked) : qa.asked[k] = Healthy[i].label
          /\ Len(qa.out) = Len(alone)
          /\ \A k \in 1..Len(alone) : Shown(qa.out[k]) = Shown(alone[k])
          /\ \A k \in 1..Len(qa.out) :
                ~oracle[Label(qa.out[k].label.key)].raises

\* A request is done in which a question in the middle of the loop raised,
\* and questions before and after it gave fields.
C18_Witness ==
    /\ qa.pc = "done"
    /\ qa.status = "success"
    /\ \E i \in 2..(Len(questions) - 1) :
          /\ oracle[questions[i].label].raises
          /\ \E k \in 1..Len(qa.out) : qa.out[k].label.key = questions[i - 1].label.key
          /\ \E k \in 1..Len(qa.out) : qa.out[k].label.key = questions[i + 1].label.key

\* C19: if the model backend cannot be loaded or the OCR collaborator fails
\* for a request, the response has status "error" and no fields; it is never
\* a success with an empty or partial field list.
C19_CollaboratorUnavailable ==
    (qa.pc = "done" /\ (~collab.model \/ ~collab.ocr))
    => (qa.status = "error" /\ qa.out = <<>>)

\* The request lacks a required field of the handler's payload or carries a
\* malformed box (for /reextract-bbox an absent one too).
InputError ==
    \/ ~reqBody.data
    \/ ~reqBody.image
    \/ /\ inputResp.handler = "apply_template_intelligent"
       /\ \/ reqBody.template_fields = {}
          \/ \E fields \in reqBody.template_fields : \E i \in 1..Len(fields) :
                fields[i].bbox # {} /\ \A b \in fields[i].bbox : Len(b) # 4
    \/ /\ inputResp.handler = "reextract_bbox"
       /\ (reqBody.bbox = {} \/ \A b \in reqBody.bbox : Len(b) # 4)

\* C20: a request that lacks a required payload field or carries a malformed
\* bbox is answered with an input error (not a generic failure) before the
\* model is loaded, the document is rasterised or written to disk, or OCR is
\* run.
C20_InputErrorsFirst ==
    (inputResp.done /\ InputError)
    => (inputResp.code = 400 /\ inputResp.steps = <<>>)

\* The labels of the requests of a slice.
SliceKeys(fields) == {fields[i].key : i \in 1..Len(fields)}

\* The questions the call of the last response put to the model.
AskedOf(resp) ==
    IF resp.asked = 0 THEN <<>> ELSE Questions(resp.batch_fields)

\* C29: a batch call asks the model exactly the questions of the field
\* requests in the slice of the submitted batch_index: never more than
\* batch_size questions, and no question outside the slice.
C29_OnlySliceQuestions ==
    batchResp.status = "success" =>
        /\ batchResp.asked <= batch_size
        /\ \A i \in 1..Len(AskedOf(batchResp)) :
               AskedOf(batchResp)[i] \in SliceKeys(batchResp.batch_fields)

\* The ids of the fields of a response.
IdsOf(resp) == {resp.fields[i].id : i \in 1..Len(resp.fields)}

\* A successful call for a batch_index in 0 .. total_batches - 1.
InRange(resp) ==
    /\ resp.status = "success"
    /\ resp.submitted \in 0..(resp.batch_info.total_batches - 1)

\* C30: over the batches of one request list (batch_index 0 up to
\* total_batches - 1, each numbered from batch_index * batch_size + 1) the
\* ids of the emitted fields are pairwise distinct: two calls for different
\* batches share no id, and no call emits an id twice.
C30_DistinctIds ==
    [][/\ InRange(batchResp') =>
              Cardinality(IdsOf(batchResp')) = Len(batchResp'.fields)
       /\ (InRange(batchResp) /\ InRange(batchResp')
             /\ batchResp.submitted # batchResp'.submitted) =>
              IdsOf(batchResp) \cap IdsOf(batchResp') = {}]_vars

\* The top-Y of two words differs by more than max(10, 1% of the height).
FarApart(a, b) ==
    100 * Dist(a.bbox[2], b.bbox[2]) > line_threshold(lineInput.image_height)

RECURSIVE Flatten(_)
Flatten(groups) ==
    IF groups = <<>> THEN <<>> ELSE Head(groups) \o Flatten(Tail(groups))

RECURSIVE SumCounts(_)
SumCounts(lines) ==
    IF lines = <<>> THEN 0 ELSE Head(lines).word_count + SumCounts(Tail(lines))

\* C28: with the words sorted by (y1, x1), a new line starts exactly when the
\* next word's y1 differs from the y1 of the current line's first word by
\* more than max(10, 1% of the image height): the lines partition the sorted
\* words, their word counts sum to the number of words, every word of a line
\* is within the threshold of the line's first word, and the first word of
\* the next line is not.
C28_LineGrouping ==
    lineResp.done =>
        /\ Flatten(lineResp.groups) = sorted_words(lineInput.words)
        /\ SumCounts(lineResp.lines) = Len(lineInput.words)
        /\ \A g \in 1..Len(lineResp.groups) :
              \A i \in 1..Len(lineResp.groups[g]) :
                  ~FarApart(lineResp.groups[g][i], lineResp.groups[g][1])
        /\ \A g \in 1..(Len(lineResp.groups) - 1) :
              FarApart(lineResp.groups[g + 1][1], lineResp.groups[g][1])

\* Some block of the page is a header candidate (its centre is above
\* min(template Y) - 20) reading "Weight" within 80 units of the templates'
\* mean X.
WeightHeaderAbove ==
    \E i \in 1..Len(tplReq.text_blocks) :
        LET b == tplReq.text_blocks[i]
            tf == tplReq.template_fields
        IN /\ b.text = TxtWeight
           /\ cy2(b.bbox) < min_template_y2(tf) - 40
           /\ Dist(Len(tf) * cx2(b.bbox), SumX2(tf)) < 160 * Len(tf)

\* The case of the column transfer: examples spread by less than 100 units,
\* a "Weight" header above them, and column suggestion requested for the
\* examples' own page.
ColumnTransferCase ==
    /\ tplResp.done
    /\ tplReq.same_page /\ tplReq.suggest_columns
    /\ x_variance2(tplReq.template_fields) < 200
    /\ WeightHeaderAbove

TxtLowerWeight == <<"w", "e", "i", "g", "h", "t">>

\* The names a column named weight gives its fields.
WeightNames ==
    {TxtLowerWeight} \cup
    {TxtLowerWeight \o <<"_", "i", "t", "e", "m", "_">> \o Decimal(n) : n \in 1..3}

\* C23 as stated: in the column transfer case the set is classified COLUMN
\* and a column is emitted whose field name is the lower-cased header,
\* weight.
C23_ColumnTransfer ==
    ColumnTransferCase =>
        /\ tplResp.branch = "column"
        /\ \E i \in 1..Len(tplResp.fields) :
               tplResp.fields[i].field_name \in WeightNames

\* C23, amended: in the column transfer case the set is classified COLUMN,
\* no emitted field comes from a block within 60 units of the templates'
\* mean X (the examples' own column is never emitted), every emitted field
\* is a column suggestion, and every field of a column whose header was
\* selected as "Weight" is named weight for a single example and
\* weight_item_n for the n-th of several examples.
C23_ColumnNamedFromHeader ==
    ColumnTransferCase =>
        /\ tplResp.branch = "column"
        /\ tplResp.status = "success"
        /\ \A i \in 1..Len(tplResp.fields) :
              LET f == tplResp.fields[i]
                  tf == tplReq.template_fields
              IN /\ f.source = "column_suggestion"
                 /\ Dist(Len(tf) * cx2(f.bbox), SumX2(tf)) >= 120 * Len(tf)
                 /\ f.column_header = {TxtWeight} =>
                       IF Len(tf) = 1 THEN f.field_name = TxtLowerWeight
                       ELSE \E n \in 1..Len(tf) :
                               /\ f.field_name = TxtLowerWeight
                                      \o <<"_", "i", "t", "e", "m", "_">> \o Decimal(n)
                               /\ Dist(cy2(f.bbox), cy2(tf[n].bbox)) < 120

\* The column transfer case with three examples and a field of the column
\* under the "Weight" header.
C23_Witness ==
    /\ ColumnTransferCase
    /\ Len(tplReq.template_fields) = 3
    /\ \E i \in 1..Len(tplResp.fields) :
          /\ tplResp.fields[i].column_header = {TxtWeight}
          /\ tplResp.fields[i].field_name
                = TxtLowerWeight \o <<"_", "i", "t", "e", "m", "_", "1">>

\* C24: a same-page request with the column opt-in whose examples are
\* classified SCATTERED (X-centre spread of 100 or more) gets a success
\* result whose fields are the proximity matches; the column branch is taken
\* only with the opt-in and a COLUMN classification.
C24_ScatteredFallback ==
    tplResp.done =>
        /\ (tplReq.same_page /\ tplReq.suggest_columns
              /\ x_variance2(tplReq.template_fields) >= 200) =>
               /\ tplResp.status = "success"
               /\ tplResp.fields = ScatteredFields(tplReq, 1)
        /\ tplResp.branch = "column" =>
               /\ tplReq.suggest_columns
               /\ x_variance2(tplReq.template_fields) < 200

\* C25: the model is asked for the headers only when the caller opted in,
\* and the header tokens it returns are in the header candidate list the
\* header selection uses.
C25_ModelHeadersMerged ==
    (tplResp.done /\ tplResp.branch = "column") =>
        /\ ~tplReq.use_ai_fallback => tplResp.asked = <<>>
        /\ \A i \in 1..Len(tplResp.layoutlm_headers) :
              \E j \in 1..Len(tplResp.header_candidates) :
                  tplResp.header_candidates[j] = tplResp.layoutlm_headers[i]

\* The fields emitted from spatial candidates, and the examples that have a
\* candidate, both in the order of the examples.
MatchFields == SelectSeq(tplResp.fields, LAMBDA f : f.source = "template_match")
MatchedExamples ==
    SelectSeq(tplReq.template_fields,
              LAMBDA t : candidates(tplReq.text_blocks, t) # {})

\* Twice the bonus of 50 for a block whose is-numeric flag equals the
\* example value's.
Bonus50(block, example) ==
    IF is_numeric(block.text) = is_numeric(example.value) THEN 100 ELSE 0

\* C26: in scattered mode exactly one field is emitted per example that has
\* a block within 200 units of its centre in both axes, and its block
\* minimises, among those blocks, the Euclidean distance to the example's
\* centre minus 50 when the is-numeric flags agree.
C26_ScatteredMinimum ==
    (tplResp.done /\ tplResp.status = "success" /\ tplResp.branch = "scattered") =>
        /\ Len(MatchFields) = Len(MatchedExamples)
        /\ \A k \in 1..Len(MatchFields) :
              LET t == MatchedExamples[k]
                  blocks == tplReq.text_blocks
              IN \E i \in candidates(blocks, t) :
                    /\ blocks[i].bbox = MatchFields[k].bbox
                    /\ blocks[i].text = MatchFields[k].value
                    /\ \A j \in candidates(blocks, t) :
                          ~LessAdjusted(Dist2Sq(blocks[j], t), Bonus50(blocks[j], t),
                                        Dist2Sq(blocks[i], t), Bonus50(blocks[i], t))

\* The text the patterns are searched in.
PatText == Join([i \in 1..Len(patWords) |-> patWords[i].text])

\* Pattern p of a kind matches the text.
PatternMatches(kind, p) == re_search(PatternsOf(kind)[p], PatText) # {}

\* The fields of a kind in the response.
FieldsOfKind(kind) ==
    {i \in 1..Len(patResp.fields) : patResp.fields[i].label = kind}

\* C27: for each field type the patterns are tried in their order and the
\* evaluation stops at the first pattern that matches the text: every
\* pattern tried before the last one tried did not match, the loop ends
\* before the end of the list only at a match, no pattern is tried after a
\* match whether or not an OCR word supports the captured value, and at most
\* one field of each type is emitted.
C27_FirstMatchStops ==
    (patResp.done /\ patWords # <<>>) =>
        \A kind \in Kinds :
            LET tried == patResp.tried[kind]
            IN /\ Len(tried) >= 1
               /\ tried = [i \in 1..Len(tried) |-> i]
               /\ \A i \in 1..(Len(tried) - 1) : ~PatternMatches(kind, i)
               /\ Len(tried) < Len(PatternsOf(kind)) =>
                      PatternMatches(kind, Len(tried))
               /\ Cardinality(FieldsOfKind(kind)) <= 1
               /\ FieldsOfKind(kind) # {} => PatternMatches(kind, Len(tried))

\* The first invoice pattern matched a value no OCR word supports, a later
\* invoice pattern matches too, and the second date pattern was reached
\* after the first one failed.
C27_Witness ==
    /\ patResp.done
    /\ patResp.tried["invoice_number"] = <<1>>
    /\ FieldsOfKind("invoice_number") = {}
    /\ PatternMatches("invoice_number", 3)
    /\ patResp.tried["invoice_date"] = <<1, 2>>
    /\ FieldsOfKind("invoice_date") # {}

\* C21: two runs of the extraction on the same document with the same OCR
\* result give identical field lists (names, values, boxes and confidences),
\* on the pattern path and on the fallback taken when no pattern matched.
C21_Deterministic ==
    Len(simRuns) = 2 => simRuns[1].fields = simRuns[2].fields

\* A field, or the metadata of the response, says that the fields are
\* simulated.
TaggedField(f) ==
    "source" \in DOMAIN f /\ f.source \in {"ocr_line", "simulated"}
TaggedMetadata(resp) ==
    \/ "simulated" \in DOMAIN resp.metadata
    \/ "source" \in DOMAIN resp.metadata

\* C22: when pattern extraction yields no field and the static simulation is
\* returned instead, every returned field, or the response metadata, is
\* tagged as simulated.
C22_SimulationTagged ==
    \A r \in 1..Len(simRuns) :
        simRuns[r].via = "simulation" =>
            \/ \A i \in 1..Len(simRuns[r].fields) : TaggedField(simRuns[r].fields[i])
            \/ TaggedMetadata(simRuns[r])

====
